---- MODULE Spec2Model ----
(***************************************************************************)
(* A model of the YFlow command line tool: the JSON flatten / unflatten   *)
(* transform (core/flatten.rs), the batched import with its retry loop    *)
(* (cli/commands/import_cmd.rs) and the sync that merges the remote       *)
(* translations into the local files (cli/commands/sync_cmd.rs,           *)
(* core/scanner.rs).                                                       *)
(*                                                                         *)
(* Strings that the code splits on '.' or joins with '.' are modelled as  *)
(* the non-empty sequence of their dot-free segments: "a" is <<"a">>,     *)
(* "a.b" is <<"a","b">>, "" is <<"">>, "a." is <<"a","">>.  With that     *)
(* key.split('.') is the sequence itself and format!("{}.{}", p, k) is    *)
(* p \o k.                                                                 *)
(***************************************************************************)
EXTENDS Integers, Sequences, FiniteSets, TLC

VARIABLES
    \* ---- flatten / unflatten / merge_with_flat (core/flatten.rs)
    original,     \* the tree handed to flatten_object / merge_with_flat
    updates,      \* the flat map handed to merge_with_flat
    mapRev,       \* the iteration order of serde_json::Map (see IterOrder)
    fpc,          \* "start", "flattened", "restored", "merged"
    flat,         \* result of flatten_object(original, "")
    restored,     \* result of unflatten_object(flat)
    merged,       \* result of merge_with_flat(original, updates)
    unflatten_keys \* history: the order in which unflatten_object iterated `flat`

flattenVars == <<original, updates, mapRev, fpc, flat, restored, merged, unflatten_keys>>

VARIABLES
    \* ---- ImportCmd::execute_import (cli/commands/import_cmd.rs)
    base_url,     \* APIClient.base_url, as the tokens of the string
    itrans,       \* `mapped_translations`: per language, in iteration order, its key count
    ipc,          \* "idle", "auth", "scan", "start", "push", "delay", "done", "error"
    langIdx,      \* position in `for (lang_code, lang_translations) in translations`
    chunks,       \* `chunks` of the language being imported
    batch_idx,    \* `batch_idx` of the batch being pushed
    retry_count,  \* `retry_count` of the batch being pushed
    import_result, \* `result`: the ImportResult being accumulated
    cur,          \* history: the batch pushed last, its attempts, waits and outcome
    attempted,    \* history: the <<language, batch_num>> pushed at least once
    delays,       \* history: the inter-batch sleeps made, with their length in ms
    import_dry_run, \* ImportCmd.dry_run
    import_calls, \* history: the calls run has made to the remote and to the scanner
    import_report, \* what dry_run_import reports: the key count per language, and the total
    contributions \* history: what each batch added to the counts of `result`, and how

importVars == <<base_url, itrans, ipc, langIdx, chunks, batch_idx, retry_count,
                import_result, cur, attempted, delays, import_dry_run, import_calls,
                import_report, contributions>>

VARIABLES
    \* ---- SyncCmd::run / execute_sync (cli/commands/sync_cmd.rs, core/scanner.rs)
    force,        \* SyncCmd.force
    disk,         \* the JSON files under messages_dir: path -> [tree, writable]
    disk0,        \* history: the files as they were when this run started
    disk_flip,    \* the files of the same sync run with `force` negated
    dir_writable, \* whether a new directory and file can be made under messages_dir
    incoming,     \* `local_translations` of run: language -> flat map, after mapping
    spc,          \* "idle", "auth", "start", "write", "count", "done", "error"
    local_scan_result, \* the ScanResult of step 5 of run
    todo,         \* the files the write loop has still to visit, in its order
    written,      \* `written` of write_translations_with_structure
    sync_result,  \* what run returns: Ok(SyncResult) or Err
    write_failed, \* history: the path whose write failed
    dry_run,      \* SyncCmd.dry_run
    run_no,       \* which run of the command this is, with the same remote translations
    sync_calls,   \* history: the calls run has made to the remote and to the scanner
    sync_diff     \* what show_sync_diff reports: language -> its new and existing keys

syncVars == <<force, disk, disk0, disk_flip, dir_writable, incoming, spc, local_scan_result,
              todo, written, sync_result, write_failed, dry_run, run_no, sync_calls,
              sync_diff>>

VARIABLES
    \* ---- scan_messages_dir (core/scanner.rs)
    messages_dir, \* the directory scanned: whether it is there, its subdirectories, its files
    scan_pc,      \* "idle", "start", "done"
    scan_out      \* what scan_messages_dir returns: Ok(ScanResult) or Err

scanVars == <<messages_dir, scan_pc, scan_out>>

VARIABLES
    \* ---- LanguageMapper (core/language_mapping.rs)
    mapping,      \* the configured language_mapping: local code -> backend code
    mapper,       \* the LanguageMapper built by new
    mapper_input, \* the translations handed to the mapper: code -> flat map
    mapper_pc,    \* "idle", "start", "built", "applied", "reversed"
    mapper_output \* what apply_to_translations / reverse_translations returns

mapperVars == <<mapping, mapper, mapper_input, mapper_pc, mapper_output>>

vars == <<flattenVars, importVars, syncVars, scanVars, mapperVars>>

\* What the actions of one specification leave alone.
outsideFlatten == <<importVars, syncVars, scanVars, mapperVars>>

outsideImport == <<flattenVars, syncVars, scanVars, mapperVars>>

outsideSync == <<flattenVars, importVars, scanVars, mapperVars>>

outsideScan == <<flattenVars, importVars, syncVars, mapperVars>>

outsideMapper == <<flattenVars, importVars, syncVars, scanVars>>

----------------------------------------------------------------------------
(* Bounds of the model.                                                    *)

\* Trees handed to flatten_object have at most this many nodes below the root.
MaxNodes == 3

\* Flat maps handed to merge_with_flat have at most this many keys.
MaxUpdates == 2

\* Trees handed to merge_with_flat have at most this many nodes below the root.
MaxMergeNodes == 2

\* An import has at most this many languages.
MaxLangs == 2

\* An import has at most this many batches over all its languages.
MaxBatches == 3

\* The messages directory holds at most this many JSON files when a sync starts.
MaxFiles == 2

\* The configured language mapping has at most this many entries.
MaxMappings == 2

\* The sync command is run at most this many times in a row.
MaxRuns == 2

----------------------------------------------------------------------------
(* serde_json::Value                                                       *)

EmptyString == <<"">>

\* The object keys the model draws from: "a", "b", the dotted "a.b" and "".
ObjKeys == {<<"a">>, <<"b">>, <<"a", "b">>, EmptyString}

\* The string leaves the model draws from.
StrVals == {"x", "y"}

EmptyMap == <<>>

String(s) == [t |-> "String", s |-> s]

Object(m) == [t |-> "Object", map |-> m]

\* Every other variant takes the `_ => {}` arm of flatten_recursive.
OtherValues == {[t |-> "Number"]}

LeafValues == {String(s) : s \in StrVals} \cup OtherValues

\* HashMap::insert / serde_json::Map::insert: binds k to v, replacing a binding.
MapInsert(m, k, v) == [x \in (DOMAIN m) \cup {k} |-> IF x = k THEN v ELSE m[x]]

RECURSIVE ValuesOfSize(_), MapsOfSize(_, _)

\* The values made of exactly n nodes.
ValuesOfSize(n) ==
    (IF n = 1 THEN LeafValues ELSE {})
        \cup {Object(m) : m \in MapsOfSize(ObjKeys, n - 1)}

\* The maps over keys of ks whose values are made of exactly n nodes in all.
MapsOfSize(ks, n) ==
    IF ks = {}
    THEN (IF n = 0 THEN {EmptyMap} ELSE {})
    ELSE LET k == CHOOSE x \in ks : TRUE
             rest == ks \ {k}
         IN MapsOfSize(rest, n)
                \cup UNION {{MapInsert(m, k, v) :
                                m \in MapsOfSize(rest, n - i), v \in ValuesOfSize(i)} :
                            i \in 1..n}

\* The object trees with at most n nodes below the root.
TreesUpTo(n) == UNION {{Object(m) : m \in MapsOfSize(ObjKeys, j)} : j \in 0..n}

\* The flat keys merge_with_flat is handed: "a", "b", "a.b", "a.b.a", ".a".
UpdateKeys == {<<"a">>, <<"b">>, <<"a", "b">>, <<"a", "b", "a">>, <<"", "a">>}

\* The values of the flat maps merge_with_flat is handed.
UpdateVals == {"z"}

\* The flat maps with at most n keys.
FlatMapsUpTo(n) ==
    UNION {[ks -> UpdateVals] : ks \in {s \in SUBSET UpdateKeys : Cardinality(s) <= n}}

----------------------------------------------------------------------------
(* Iteration orders                                                        *)

\* The object keys in ascending order of their strings: "" < "a" < "a.b" < "b".
KeyRank(k) ==
    CASE k = EmptyString -> 0
      [] k = <<"a">> -> 1
      [] k = <<"a", "b">> -> 2
      [] k = <<"b">> -> 3

RECURSIVE SortedKeys(_)

SortedKeys(ks) ==
    IF ks = {} THEN <<>>
    ELSE LET k == CHOOSE x \in ks : \A y \in ks : KeyRank(x) <= KeyRank(y)
         IN <<k>> \o SortedKeys(ks \ {k})

Reverse(s) == [i \in 1..Len(s) |-> s[Len(s) + 1 - i]]

\* `for (key, val) in map` over a serde_json::Map: the order of the keys (the
\* default BTreeMap) or any file order (feature preserve_order); the model
\* takes the ascending and the descending order.
IterOrder(ks, rev) == IF rev THEN Reverse(SortedKeys(ks)) ELSE SortedKeys(ks)

RECURSIVE Perms(_)

\* `for (key, value) in flat` over a HashMap: any order of its keys.
Perms(ks) ==
    IF ks = {} THEN {<<>>}
    ELSE UNION {{<<k>> \o p : p \in Perms(ks \ {k})} : k \in ks}

----------------------------------------------------------------------------
(* core/flatten.rs                                                         *)

RECURSIVE flatten_recursive(_, _, _, _), flatten_entries(_, _, _, _, _)

\* flatten_recursive with an entry for the leaves that are not strings too.
flatten_recursive_every_leaf(value, prefix, result, rev) ==
    CASE value.t = "Object" ->
            flatten_entries(value.map, IterOrder(DOMAIN value.map, rev),
                            prefix, result, rev)
      [] value.t = "String" -> MapInsert(result, prefix, value.s)
      [] OTHER -> MapInsert(result, prefix, "x")

flatten_recursive(value, prefix, result, rev) ==
    CASE value.t = "Object" ->
            flatten_entries(value.map, IterOrder(DOMAIN value.map, rev),
                            prefix, result, rev)
      [] value.t = "String" -> MapInsert(result, prefix, value.s)
      [] OTHER -> result

\* The loop `for (key, val) in map` of flatten_recursive over the keys left.
flatten_entries(map, keys, prefix, result, rev) ==
    IF keys = <<>> THEN result
    ELSE LET key == Head(keys)
             new_key == IF prefix = EmptyString THEN key ELSE prefix \o key
         IN flatten_entries(map, Tail(keys), prefix,
                            flatten_recursive(map[key], new_key, result, rev), rev)

flatten_object(value, prefix, rev) ==
    flatten_recursive(value, prefix, EmptyMap, rev)

RECURSIVE insert_into_nested(_, _, _)

RECURSIVE insert_into_nested_overwriting(_, _, _)

\* insert_into_nested with an intermediate segment that is bound to a string
\* bound anew to an empty object.
insert_into_nested_overwriting(map, parts, value) ==
    IF Len(parts) = 1
    THEN MapInsert(map, <<parts[1]>>, String(value))
    ELSE LET head == <<parts[1]>>
             tail == Tail(parts)
             map1 == IF head \notin DOMAIN map \/ map[head].t # "Object"
                     THEN MapInsert(map, head, Object(EmptyMap))
                     ELSE map
         IN MapInsert(map1, head,
                      Object(insert_into_nested_overwriting(map1[head].map, tail, value)))

\* insert_into_nested without its contains_key test: the intermediate object is
\* created anew for every key.
insert_into_nested_fresh(map, parts, value) ==
    IF Len(parts) = 1
    THEN MapInsert(map, <<parts[1]>>, String(value))
    ELSE MapInsert(map, <<parts[1]>>,
                   Object(insert_into_nested(EmptyMap, Tail(parts), value)))

insert_into_nested(map, parts, value) ==
    IF Len(parts) = 1
    THEN MapInsert(map, <<parts[1]>>, String(value))
    ELSE LET head == <<parts[1]>>
             tail == Tail(parts)
             map1 == IF head \notin DOMAIN map
                     THEN MapInsert(map, head, Object(EmptyMap))
                     ELSE map
         IN IF map1[head].t = "Object"
            THEN MapInsert(map1, head,
                           Object(insert_into_nested(map1[head].map, tail, value)))
            ELSE map1

RECURSIVE unflatten_loop(_, _, _)

\* The loop `for (key, value) in flat` of unflatten_object over the keys left.
unflatten_loop(root, flatMap, keys) ==
    IF keys = <<>> THEN root
    ELSE unflatten_loop(insert_into_nested(root, Head(keys), flatMap[Head(keys)]),
                        flatMap, Tail(keys))

\* unflatten_object with its HashMap iterated in the order `keys`.
unflatten_object(flatMap, keys) == Object(unflatten_loop(EmptyMap, flatMap, keys))

RECURSIVE merge_loop(_, _, _)

\* merge_loop that keeps the value of a key the original already holds.
merge_loop_keep(mergedMap, translations, keys) ==
    IF keys = <<>> THEN mergedMap
    ELSE merge_loop(IF Head(keys) \in DOMAIN mergedMap THEN mergedMap
                    ELSE MapInsert(mergedMap, Head(keys), translations[Head(keys)]),
                    translations, Tail(keys))

\* The loop `for (key, value) in flat_translations` of merge_with_flat.
merge_loop(mergedMap, translations, keys) ==
    IF keys = <<>> THEN mergedMap
    ELSE merge_loop(MapInsert(mergedMap, Head(keys), translations[Head(keys)]),
                    translations, Tail(keys))

RECURSIVE AnyOrder(_)

\* One order of the keys of a HashMap, where the order makes no difference
\* (the loop inserts each key once, into a map).
AnyOrder(ks) ==
    IF ks = {} THEN <<>>
    ELSE LET k == CHOOSE x \in ks : TRUE IN <<k>> \o AnyOrder(ks \ {k})

\* `merged` of merge_with_flat before it is unflattened.
merge_flat(orig, flat_translations, rev) ==
    merge_loop(flatten_object(orig, EmptyString, rev), flat_translations,
               AnyOrder(DOMAIN flat_translations))

\* merge_with_flat with its final unflatten iterated in the order `keys`.
merge_with_flat(orig, flat_translations, rev, keys) ==
    unflatten_object(merge_flat(orig, flat_translations, rev), keys)

----------------------------------------------------------------------------
(* The flatten specification: the inputs are drawn in Init, the actions    *)
(* apply flatten_object, unflatten_object and merge_with_flat.             *)

NoValue == [t |-> "None"]

\* The flatten state while another specification runs.
FlattenIdle ==
    /\ original = NoValue
    /\ updates = EmptyMap
    /\ mapRev = FALSE
    /\ fpc = "idle"
    /\ flat = EmptyMap
    /\ restored = NoValue
    /\ merged = NoValue
    /\ unflatten_keys = <<>>

\* The history before any batch is pushed.
NoBatch ==
    [lang |-> 0, batch_num |-> 0, answer |-> [kind |-> "none", status |-> "none"],
     attempts |-> 0, waits |-> <<>>, outcome |-> "none"]

\* Nothing reported by dry_run_import.
NoReport == [counts |-> <<>>, total_keys |-> 0]

\* The import state while another specification runs.
ImportIdle ==
    /\ base_url = <<>>
    /\ itrans = <<>>
    /\ ipc = "idle"
    /\ langIdx = 0
    /\ chunks = <<>>
    /\ batch_idx = 0
    /\ retry_count = 0
    /\ import_result = [added |-> 0, updated |-> 0, failed |-> 0, errors |-> <<>>]
    /\ cur = NoBatch
    /\ attempted = {}
    /\ delays = <<>>
    /\ import_dry_run = FALSE
    /\ import_calls = <<>>
    /\ import_report = NoReport
    /\ contributions = <<>>

NoPath == <<>>

\* A ScanResult with nothing in it.
ScanResultEmpty == [translations |-> <<>>, files |-> <<>>, key_count |-> 0]

\* LanguageMapper::default().
MapperDefault == [local_to_backend |-> <<>>, backend_to_local |-> <<>>]

\* The mapper state while another specification runs.
MapperIdle ==
    /\ mapping = <<>>
    /\ mapper = MapperDefault
    /\ mapper_input = <<>>
    /\ mapper_pc = "idle"
    /\ mapper_output = <<>>

\* The scan state while another specification runs.
ScanIdle ==
    /\ messages_dir = [exists |-> FALSE, dirs |-> <<>>, files |-> <<>>]
    /\ scan_pc = "idle"
    /\ scan_out = [ret |-> "none", result |-> ScanResultEmpty]

SyncResultNone ==
    [ret |-> "none", downloaded |-> 0, skipped |-> 0, written |-> 0, errors |-> <<>>]

\* The sync state while another specification runs.
SyncIdle ==
    /\ force = FALSE
    /\ disk = <<>>
    /\ disk0 = <<>>
    /\ disk_flip = <<>>
    /\ dir_writable = TRUE
    /\ incoming = <<>>
    /\ spc = "idle"
    /\ local_scan_result = ScanResultEmpty
    /\ todo = <<>>
    /\ written = <<>>
    /\ sync_result = SyncResultNone
    /\ dry_run = FALSE
    /\ run_no = 0
    /\ sync_calls = <<>>
    /\ sync_diff = <<>>
    /\ write_failed = NoPath

InitFlatten ==
    /\ \/ original \in TreesUpTo(MaxNodes) /\ updates = EmptyMap
       \/ original \in TreesUpTo(MaxMergeNodes) /\ updates \in FlatMapsUpTo(MaxUpdates)
    /\ mapRev \in BOOLEAN
    /\ fpc = "start"
    /\ flat = EmptyMap
    /\ restored = NoValue
    /\ merged = NoValue
    /\ unflatten_keys = <<>>
    /\ ImportIdle
    /\ SyncIdle
    /\ ScanIdle
    /\ MapperIdle

Flatten ==
    /\ fpc = "start"
    /\ flat' = flatten_object(original, EmptyString, mapRev)
    /\ fpc' = "flattened"
    /\ UNCHANGED <<original, updates, mapRev, restored, merged, unflatten_keys>>
    /\ UNCHANGED outsideFlatten

Unflatten ==
    /\ fpc = "flattened"
    /\ \E keys \in Perms(DOMAIN flat) :
            /\ restored' = unflatten_object(flat, keys)
            /\ unflatten_keys' = keys
    /\ fpc' = "restored"
    /\ UNCHANGED <<original, updates, mapRev, flat, merged>>
    /\ UNCHANGED outsideFlatten

Merge ==
    /\ fpc = "start"
    /\ \E keys \in Perms(DOMAIN merge_flat(original, updates, mapRev)) :
            merged' = merge_with_flat(original, updates, mapRev, keys)
    /\ fpc' = "merged"
    /\ UNCHANGED <<original, updates, mapRev, flat, restored, unflatten_keys>>
    /\ UNCHANGED outsideFlatten

NextFlatten == Flatten \/ Unflatten \/ Merge

SpecFlatten == InitFlatten /\ [][NextFlatten]_vars

----------------------------------------------------------------------------
(* Properties of flatten_object, unflatten_object and merge_with_flat.     *)

RECURSIVE OnlyStringsAndObjects(_)

\* The nodes of v are only objects and string leaves.
OnlyStringsAndObjects(v) ==
    CASE v.t = "String" -> TRUE
      [] v.t = "Object" -> \A k \in DOMAIN v.map : OnlyStringsAndObjects(v.map[k])
      [] OTHER -> FALSE

RECURSIVE NoDottedKeyNoEmptyObject(_)

\* Below v no key contains a '.' and no object is empty.
NoDottedKeyNoEmptyObject(v) ==
    v.t = "Object" =>
        \A k \in DOMAIN v.map :
            /\ Len(k) = 1
            /\ v.map[k].t = "Object" => v.map[k].map # EmptyMap
            /\ NoDottedKeyNoEmptyObject(v.map[k])

\* The trees unflatten_object gives back: objects and strings only, no key with
\* a '.', no empty object below the root, and the root's key "" (if any) not
\* bound to an object.
RoundTrippable(tree) ==
    /\ OnlyStringsAndObjects(tree)
    /\ NoDottedKeyNoEmptyObject(tree)
    /\ EmptyString \in DOMAIN tree.map => tree.map[EmptyString].t # "Object"

\* p is a proper dot-path prefix of k.
IsProperPrefix(p, k) == Len(p) < Len(k) /\ SubSeq(k, 1, Len(p)) = p

\* No key of ks is a proper dot-path prefix of another, and none starts with '.'.
PrefixFree(ks) ==
    /\ \A p \in ks, k \in ks : ~IsProperPrefix(p, k)
    /\ \A k \in ks : Len(k) > 1 => k[1] # ""

\* f overlaid with u: u's value where u has the key, f's value elsewhere.
Overlay(f, u) ==
    [k \in (DOMAIN f) \cup (DOMAIN u) |-> IF k \in DOMAIN u THEN u[k] ELSE f[k]]

\* C1 as stated: for every tree T whose nodes are only objects and string
\* leaves, unflatten_object(flatten_object(T, "")) is structurally equal to T.
C1_RoundTripAnyTree ==
    (fpc = "restored" /\ OnlyStringsAndObjects(original)) => restored = original

\* C1 amended: the round trip gives T back for every tree T of objects and
\* string leaves in which no key contains a '.', no object below the root is
\* empty and the root's key "" is not bound to an object.
C1_RoundTrip ==
    (fpc = "restored" /\ RoundTrippable(original)) => restored = original

\* A round trip of a tree with a nested object and at least two leaves.
C1_Witness ==
    /\ fpc = "restored"
    /\ RoundTrippable(original)
    /\ Cardinality(DOMAIN flat) >= 2
    /\ \E k \in DOMAIN flat : Len(k) >= 2

\* C2 as stated: for every tree and every flat map, flattening
\* merge_with_flat(original, updates) gives exactly flatten(original) overlaid
\* with updates.
C2_MergeOverlayAny ==
    fpc = "merged" =>
        flatten_object(merged, EmptyString, mapRev)
            = Overlay(flatten_object(original, EmptyString, mapRev), updates)

\* C2 amended: flattening merge_with_flat(original, updates) gives exactly
\* flatten(original) overlaid with updates, provided that among the keys of that
\* overlay none is a proper dot-path prefix of another and none starts with '.'.
C2_MergeOverlay ==
    LET overlay == Overlay(flatten_object(original, EmptyString, mapRev), updates)
    IN (fpc = "merged" /\ PrefixFree(DOMAIN overlay)) =>
            flatten_object(merged, EmptyString, mapRev) = overlay

\* A merge that replaces a key of the original, adds a key and keeps a key.
C2_Witness ==
    LET flatOrig == flatten_object(original, EmptyString, mapRev)
    IN /\ fpc = "merged"
       /\ PrefixFree(DOMAIN Overlay(flatOrig, updates))
       /\ \E k \in DOMAIN updates : k \in DOMAIN flatOrig /\ flatOrig[k] # updates[k]
       /\ \E k \in DOMAIN updates : k \notin DOMAIN flatOrig
       /\ \E k \in DOMAIN flatOrig : k \notin DOMAIN updates

----------------------------------------------------------------------------
(* cli/commands/import_cmd.rs and APIClient::push_translations             *)
(*                                                                         *)
(* A message is the sequence of the tokens of its string.  The tokens are  *)
(* cut so that every occurrence of "429", "rate limit" or "too many        *)
(* requests" (in any letter case) is a token of its own.                   *)

BATCH_SIZE == 50

\* BATCH_DELAY.as_millis()
BATCH_DELAY == 200

MAX_RETRIES == 3

\* config.api_url: one without and one with "429" in it (port 4290).
BaseUrls == {<<"http://localhost:8080/api">>,
             <<"http://localhost:", "429", "0/api">>}

\* The language codes, by position in the iteration over `translations`.
LangCode(i) == <<"en", "zh", "fr", "de">>[i]

\* The key counts of a language: none, one key, one full batch, one key more,
\* and two full batches with a remainder.
KeyCounts == {0, 1, BATCH_SIZE, BATCH_SIZE + 1, 2 * BATCH_SIZE + 20}

\* chunks.len() for n keys.
BatchCount(n) == (n + BATCH_SIZE - 1) \div BATCH_SIZE

RECURSIVE TotalBatches(_)

TotalBatches(sizes) ==
    IF sizes = <<>> THEN 0 ELSE BatchCount(Head(sizes)) + TotalBatches(Tail(sizes))

\* The translations execute_import is handed: per language its key count.
ImportInputs ==
    {sizes \in UNION {[1..n -> KeyCounts] : n \in 0..MaxLangs} :
        TotalBatches(sizes) <= MaxBatches}

\* chunks_exact(BATCH_SIZE) in the place of chunks(BATCH_SIZE): the keys after
\* the last full batch are left out.
ChunksDropRemainder(n) ==
    [i \in 1..(n \div BATCH_SIZE) |->
        {k \in 1..n : (k - 1) \div BATCH_SIZE = i - 1}]

\* lang_translations.into_iter().collect::<Vec<_>>().chunks(BATCH_SIZE): the
\* keys are named by their position in the iteration, 1..n.
Chunks(n) ==
    [i \in 1..BatchCount(n) |-> {k \in 1..n : (k - 1) \div BATCH_SIZE = i - 1}]

\* What the transport and the remote can answer to one push of c keys.
\*   status_err: ureq's Err(Error::Status(status, _)), whose text is
\*               "<url>: status code <status>";
\*   response:   a response handed back as Ok, with its status and body.
PushOutcomes(c) ==
    {[kind |-> "status_err", status |-> st] : st \in {"429", "500"}}
    \cup {[kind |-> "response", status |-> "429", body |-> "none",
           added |-> 0, existed |-> 0, failed |-> 0]}
    \cup {[kind |-> "response", status |-> "200", body |-> "bad_json",
           added |-> 0, existed |-> 0, failed |-> 0]}
    \cup {[kind |-> "response", status |-> "200", body |-> "null_data",
           added |-> 0, existed |-> 0, failed |-> 0]}
    \cup {[kind |-> "response", status |-> "200", body |-> "data",
           added |-> c \div 2, existed |-> c - (c \div 2), failed |-> 0],
          [kind |-> "response", status |-> "200", body |-> "data",
           added |-> 0, existed |-> 0, failed |-> c]}

Ok(v) == [ok |-> TRUE, response |-> v]

Err(msg) == [ok |-> FALSE, msg |-> msg]

\* What the auth endpoint can answer to check_auth.
AuthAnswers ==
    {[kind |-> "response", status |-> 200],
     [kind |-> "status_err", status |-> 401],
     [kind |-> "status_err", status |-> 500],
     [kind |-> "transport_err", status |-> 0]}

\* APIClient::check_auth: the Result it returns for an answer.
check_auth(answer) ==
    CASE answer.kind = "response" -> Ok(TRUE)
      [] answer.kind = "status_err" /\ answer.status = 401 -> Ok(FALSE)
      [] OTHER -> Err(<<"Auth check failed: ">>)

\* A call run has made, with what it was answered.
Call(name, answer) == [call |-> name, answer |-> answer]

\* The answer of a call that succeeded, of one that failed, and of the scan of
\* the local directory.
Succeeded == [kind |-> "response", status |-> 200]

Failed == [kind |-> "status_err", status |-> 500]

Scanned == [kind |-> "local", status |-> 0]

\* run going on whatever check_auth returns.
AuthenticatedAlways(answer) == TRUE

\* `if !client.check_auth()? { return Err(..) }`: whether run goes on.
Authenticated(answer) ==
    LET r == check_auth(answer) IN r.ok /\ r.response

\* APIClient::push_translations: the Result it returns for an outcome.
push_translations(url, out) ==
    IF out.kind = "status_err"
    THEN Err(<<"Request failed: ">> \o url \o <<"/cli/keys">>
                 \o <<": status code ", out.status>>)
    ELSE IF out.status = "429"
    THEN Err(<<"Rate limit", "ed. Retry after ", "60", " seconds">>)
    ELSE IF out.status # "200"
    THEN Err(<<"API error (", out.status, "): ">>)
    ELSE IF out.body = "bad_json"
    THEN Err(<<"Failed to parse response as JSON">>)
    ELSE IF out.body = "null_data"
    THEN Ok([added |-> 0, existed |-> 0, failed |-> 0])
    ELSE Ok([added |-> out.added, existed |-> out.existed, failed |-> out.failed])

\* str::to_lowercase on a token.
ToLower(tok) ==
    CASE tok = "Rate limit" -> "rate limit"
      [] tok = "Request failed: " -> "request failed: "
      [] tok = "API error (" -> "api error ("
      [] tok = "ed. Retry after " -> "ed. retry after "
      [] tok = "Failed to parse response as JSON" -> "failed to parse response as json"
      [] OTHER -> tok

\* str::contains for one of the patterns that are tokens of their own.
Contains(msg, pattern) == \E i \in 1..Len(msg) : msg[i] = pattern

is_rate_limit_error(msg) ==
    LET error_msg == [i \in 1..Len(msg) |-> ToLower(msg[i])]
    IN \/ Contains(error_msg, "429")
       \/ Contains(error_msg, "rate limit")
       \/ Contains(error_msg, "too many requests")

ImportResultDefault == [added |-> 0, updated |-> 0, failed |-> 0, errors |-> <<>>]

\* The next language at or after position i that has keys (`continue` on
\* total_keys == 0), or Len(itrans) + 1.
NextLang(i) ==
    IF \E j \in i..Len(itrans) : itrans[j] > 0
    THEN CHOOSE j \in i..Len(itrans) :
            itrans[j] > 0 /\ \A h \in i..(j - 1) : itrans[h] = 0
    ELSE Len(itrans) + 1

\* The `for (lang_code, lang_translations)` loop moves on from position i: to the
\* first batch of the next language with keys, or to the end of execute_import.
EnterLanguage(i) ==
    LET j == NextLang(i)
    IN /\ langIdx' = j
       /\ batch_idx' = 0
       /\ retry_count' = 0
       /\ IF j <= Len(itrans)
          THEN chunks' = Chunks(itrans[j]) /\ ipc' = "push"
          ELSE chunks' = <<>> /\ ipc' = "done"

InitImport ==
    /\ base_url \in BaseUrls
    /\ itrans \in ImportInputs
    /\ ipc = "auth"
    /\ langIdx = 0
    /\ chunks = <<>>
    /\ batch_idx = 0
    /\ retry_count = 0
    /\ import_result = ImportResultDefault
    /\ cur = NoBatch
    /\ attempted = {}
    /\ delays = <<>>
    /\ import_dry_run \in BOOLEAN
    /\ import_calls = <<>>
    /\ import_report = NoReport
    /\ contributions = <<>>
    /\ FlattenIdle
    /\ SyncIdle
    /\ ScanIdle
    /\ MapperIdle

\* Step 3 of run: the authentication, and the error it returns when the check
\* fails or says no.
ImportAuth ==
    /\ ipc = "auth"
    /\ \E answer \in AuthAnswers :
            /\ import_calls' = Append(import_calls, Call("check_auth", answer))
            /\ ipc' = IF Authenticated(answer) THEN "scan" ELSE "error"
    /\ UNCHANGED <<contributions, import_dry_run, import_report, base_url, itrans, langIdx,
                   chunks, batch_idx, retry_count, import_result, cur, attempted, delays>>
    /\ UNCHANGED outsideImport

RECURSIVE SumKeys(_)

\* The number of keys over all languages.
SumKeys(sizes) == IF sizes = <<>> THEN 0 ELSE Head(sizes) + SumKeys(Tail(sizes))

\* The keys of the scan that apply_to_translations can merge away: none, or
\* some when there are keys at all.
MergedAway(sizes) == IF SumKeys(sizes) = 0 THEN {0} ELSE {0, 1}

\* dry_run_import: the key count of every language, and their sum.
dry_run_import(trans) == [counts |-> trans, total_keys |-> SumKeys(trans)]

\* Step 6 of run with the preview shown and then the import made all the same.
after_mapping_ignoring_dry_run(dry) == "start"

\* Step 6 of run: `if self.dry_run { dry_run_import; Ok(..) } else
\* { execute_import }`.
after_mapping(dry) == IF dry THEN "done" ELSE "start"

\* Step 4 of run when scan_messages_dir fails: the `?` returns the error.
ImportScanFail ==
    /\ ipc = "scan"
    /\ import_calls' = Append(import_calls, Call("scan_messages_dir", Failed))
    /\ ipc' = "error"
    /\ UNCHANGED <<contributions, import_dry_run, import_report, base_url, itrans, langIdx,
                   chunks, batch_idx, retry_count, import_result, cur, attempted, delays>>
    /\ UNCHANGED outsideImport

\* Steps 4 to 6 of run: the scan; nothing found ends the run; else the language
\* mapping, and the preview and the return of a dry run, or execute_import.
ImportScan ==
    /\ ipc = "scan"
    /\ import_calls' = Append(import_calls, Call("scan_messages_dir", Scanned))
    /\ \E lost \in MergedAway(itrans) :
        LET key_count == SumKeys(itrans) + lost
        IN IF key_count = 0
           THEN /\ ipc' = "done"
                /\ import_result' = ImportResultDefault
                /\ UNCHANGED import_report
           ELSE /\ ipc' = after_mapping(import_dry_run)
                /\ IF import_dry_run
                   THEN /\ import_report' = dry_run_import(itrans)
                        /\ import_result' = [ImportResultDefault EXCEPT !.added = key_count]
                   ELSE UNCHANGED <<import_report, import_result>>
    /\ UNCHANGED <<contributions, import_dry_run, base_url, itrans, langIdx, chunks,
                   batch_idx, retry_count, cur, attempted, delays>>
    /\ UNCHANGED outsideImport

\* execute_import up to its first push.
ImportStart ==
    /\ ipc = "start"
    /\ import_result' = ImportResultDefault
    /\ EnterLanguage(1)
    /\ UNCHANGED <<contributions, import_dry_run, import_calls, import_report, base_url, itrans, cur, attempted, delays>>
    /\ UNCHANGED outsideImport

\* The history of the batch being pushed, with one more attempt made.
Attempt(outcome, answer, wait) ==
    LET fresh == cur.outcome # "retrying"
    IN [lang |-> langIdx,
        batch_num |-> batch_idx + 1,
        answer |-> [kind |-> answer.kind, status |-> answer.status],
        attempts |-> IF fresh THEN 1 ELSE cur.attempts + 1,
        waits |-> (IF fresh THEN <<>> ELSE cur.waits)
                    \o (IF wait = 0 THEN <<>> ELSE <<wait>>),
        outcome |-> outcome]

\* The `while !success && retry_count < MAX_RETRIES` loop is left: the sleep
\* between batches, or the next language.
LeaveRetryLoop ==
    LET is_last_batch == batch_idx + 1 = Len(chunks)
    IN IF ~is_last_batch
       THEN /\ ipc' = "delay"
            /\ UNCHANGED <<langIdx, chunks, batch_idx, retry_count>>
       ELSE EnterLanguage(langIdx + 1)

\* The errors a successful response adds: the failed keys (the first 10), and
\* the count of the others.
FailedKeyErrors(response) ==
    IF response.failed = 0 THEN <<>>
    ELSE <<[kind |-> "failed keys", lang |-> LangCode(langIdx),
            batch_num |-> batch_idx + 1,
            shown |-> IF response.failed > 10 THEN 10 ELSE response.failed]>>
         \o (IF response.failed > 10
             THEN <<[kind |-> "more", count |-> response.failed - 10]>>
             ELSE <<>>)

\* format!("{}[{}]: {}", lang_code, batch_num, e): the entry names the language
\* and the batch; the text of e is left out of it.
BatchError(msg) ==
    [kind |-> "error", lang |-> LangCode(langIdx), batch_num |-> batch_idx + 1]

\* A push failure that ends the whole run in the place of the batch.
AbortRun ==
    /\ ipc' = "done"
    /\ UNCHANGED <<langIdx, chunks, batch_idx, retry_count>>

\* A push failure after which the same batch is pushed anew.
PushBatchAnew ==
    /\ ipc' = "push"
    /\ retry_count' = 0
    /\ UNCHANGED <<langIdx, chunks, batch_idx>>

\* A failed batch after which the next batch of the language is pushed with no
\* sleep before it.
NextBatchAtOnce ==
    IF batch_idx + 1 # Len(chunks)
    THEN /\ ipc' = "push"
         /\ batch_idx' = batch_idx + 1
         /\ retry_count' = 0
         /\ UNCHANGED <<langIdx, chunks>>
    ELSE EnterLanguage(langIdx + 1)

\* `success = true` after a batch is counted as failed: on to the next batch.
AfterBatchFailure == LeaveRetryLoop

\* What the batch being pushed adds to added + updated + failed: through a
\* response or as a whole-batch failure, `counted` keys of the `size` it holds.
Contribution(via, counted) ==
    [lang |-> langIdx, batch_num |-> batch_idx + 1, via |-> via,
     counted |-> counted, size |-> Cardinality(chunks[batch_idx + 1])]

\* One turn of the retry loop whose push returns Ok(response).
PushOk ==
    /\ ipc = "push"
    /\ \E out \in PushOutcomes(Cardinality(chunks[batch_idx + 1])) :
        LET r == push_translations(base_url, out)
        IN /\ r.ok
           /\ import_result' = [added |-> import_result.added + r.response.added,
                         updated |-> import_result.updated + r.response.existed,
                         failed |-> import_result.failed + r.response.failed,
                         errors |-> import_result.errors \o FailedKeyErrors(r.response)]
           /\ cur' = Attempt("ok", out, 0)
           /\ contributions' = Append(contributions,
                    Contribution("response",
                        r.response.added + r.response.existed + r.response.failed))
    /\ attempted' = attempted \cup {<<langIdx, batch_idx + 1>>}
    /\ LeaveRetryLoop
    /\ UNCHANGED <<import_dry_run, import_calls, import_report, base_url, itrans, delays>>
    /\ UNCHANGED outsideImport

\* A wait that grows by BATCH_DELAY with every retry.
wait_time_by_one(retry) == BATCH_DELAY * retry

\* `BATCH_DELAY.as_millis() as u64 * (retry_count as u64 * 2)`.
wait_time(retry) == BATCH_DELAY * (retry * 2)

\* One turn of the retry loop whose push returns a rate-limit error that is
\* retried: retry_count goes up and the turn sleeps.  The loop goes on with the
\* same batch: `success` is false and retry_count < MAX_RETRIES.
PushRetry ==
    /\ ipc = "push"
    /\ \E out \in PushOutcomes(Cardinality(chunks[batch_idx + 1])) :
        LET r == push_translations(base_url, out)
        IN /\ ~r.ok
           /\ is_rate_limit_error(r.msg) /\ retry_count < MAX_RETRIES - 1
           /\ retry_count' = retry_count + 1
           /\ cur' = Attempt("retrying", out, wait_time(retry_count'))
    /\ retry_count' < MAX_RETRIES
    /\ attempted' = attempted \cup {<<langIdx, batch_idx + 1>>}
    /\ UNCHANGED <<contributions, import_dry_run, import_calls, import_report, base_url, itrans, ipc, langIdx, chunks, batch_idx,
                   import_result, delays>>
    /\ UNCHANGED outsideImport

\* One turn of the retry loop whose push returns an error that is not retried:
\* the whole batch is counted as failed.
PushFail ==
    /\ ipc = "push"
    /\ \E out \in PushOutcomes(Cardinality(chunks[batch_idx + 1])) :
        LET r == push_translations(base_url, out)
        IN /\ ~r.ok
           /\ ~(is_rate_limit_error(r.msg) /\ retry_count < MAX_RETRIES - 1)
           /\ import_result' = [import_result EXCEPT
                            !.failed = @ + Cardinality(chunks[batch_idx + 1]),
                            !.errors = Append(@, BatchError(r.msg))]
           /\ cur' = Attempt(IF is_rate_limit_error(r.msg)
                             THEN "failed_rate_limit" ELSE "failed_error", out, 0)
           /\ contributions' = Append(contributions,
                    Contribution("failure", Cardinality(chunks[batch_idx + 1])))
    /\ attempted' = attempted \cup {<<langIdx, batch_idx + 1>>}
    /\ AfterBatchFailure
    /\ UNCHANGED <<import_dry_run, import_calls, import_report, base_url, itrans, delays>>
    /\ UNCHANGED outsideImport

\* sleep(BATCH_DELAY) between two batches, then the next batch.
BatchDelay ==
    /\ ipc = "delay"
    /\ delays' = Append(delays, [lang |-> langIdx, after |-> batch_idx + 1,
                                  ms |-> BATCH_DELAY])
    /\ batch_idx' = batch_idx + 1
    /\ retry_count' = 0
    /\ ipc' = "push"
    /\ UNCHANGED <<contributions, import_dry_run, import_calls, import_report, base_url, itrans, langIdx, chunks, import_result, cur, attempted>>
    /\ UNCHANGED outsideImport

NextImport ==
    \/ ImportAuth
    \/ ImportScanFail
    \/ ImportScan
    \/ ImportStart
    \/ PushOk
    \/ PushRetry
    \/ PushFail
    \/ BatchDelay

SpecImport == InitImport /\ [][NextImport]_vars

\* execute_import runs on: every await of it (a push, a sleep) returns.
SpecImportFair == SpecImport /\ WF_vars(NextImport)

----------------------------------------------------------------------------
(* Properties of execute_import.                                           *)

\* The least m with m * d >= n.
CeilDiv(n, d) == CHOOSE m \in 0..n : m * d >= n /\ \A h \in 0..(m - 1) : h * d < n

\* The sizes of the batches of the language being pushed.
BatchSizes == [i \in 1..Len(chunks) |-> Cardinality(chunks[i])]

\* Every batch of every language with keys.
AllBatches ==
    {<<l, b>> \in (1..Len(itrans)) \X (1..MaxBatches) : b <= CeilDiv(itrans[l], 50)}

\* C4: a language with n > 0 keys is split into ceil(n/50) batches pushed in
\* order, every batch but the last holding exactly 50 keys and the last the
\* remaining 1..50 keys (120 keys give 50, 50, 20); every key is in exactly one
\* batch.
C4_Batching ==
    ipc \in {"push", "delay"} =>
        LET n == itrans[langIdx]
            last == Len(chunks)
        IN /\ n > 0
           /\ last = CeilDiv(n, 50)
           /\ \A i \in 1..(last - 1) : BatchSizes[i] = 50
           /\ BatchSizes[last] \in 1..50
           /\ BatchSizes[last] = n - 50 * (last - 1)
           /\ n = 120 => BatchSizes = <<50, 50, 20>>
           /\ \A k \in 1..n : Cardinality({i \in 1..last : k \in chunks[i]}) = 1
           /\ \A i \in 1..last : chunks[i] \subseteq 1..n
           /\ \A i \in 1..last, j \in 1..last :
                i < j => \A k \in chunks[i], h \in chunks[j] : k < h
           /\ \A b \in 1..last :
                <<langIdx, b>> \in attempted
                    <=> (b <= batch_idx \/ (b = batch_idx + 1 /\ cur.lang = langIdx
                                                /\ cur.batch_num = b))

\* The third batch of a language of 120 keys has been pushed.
C4_Witness ==
    /\ ipc = "push"
    /\ itrans[langIdx] = 120
    /\ batch_idx = 2
    /\ BatchSizes = <<50, 50, 20>>
    /\ <<langIdx, 3>> \in attempted

\* C5 as stated: a batch is given up as rate-limited and counted as failed only
\* once MAX_RETRIES (3) retries of it have been made.
C5_GivenUpAfterMaxRetries ==
    cur.outcome = "failed_rate_limit" => cur.attempts - 1 = MAX_RETRIES

\* The step that exhausts the rate-limit retries of the batch being pushed.
RetriesExhausted ==
    /\ ipc = "push"
    /\ cur' # cur
    /\ cur'.outcome = "failed_rate_limit"

\* The import is placed on the batch after the one being pushed: its sleep
\* before the next batch of the language, the first batch of the next language
\* with keys, or the end when no batch is left.
MovedToNextBatch ==
    IF batch_idx + 1 < Len(chunks)
    THEN ipc' = "delay" /\ langIdx' = langIdx /\ batch_idx' = batch_idx
    ELSE IF \E l \in (langIdx + 1)..Len(itrans) : itrans[l] > 0
    THEN ipc' = "push" /\ langIdx' > langIdx /\ batch_idx' = 0 /\ retry_count' = 0
    ELSE ipc' = "done"

\* A batch is pushed a further time only as the retry of its last attempt.
PushedAgainOnlyAsRetry ==
    (ipc = "push" /\ <<langIdx, batch_idx + 1>> \in attempted) =>
        /\ cur.outcome = "retrying"
        /\ cur.lang = langIdx
        /\ cur.batch_num = batch_idx + 1

\* C6: when the rate-limit retries of a batch are exhausted, all its keys are
\* added to ImportResult.failed once, one error entry is recorded for the batch,
\* the batch is never pushed again, and the import goes on to the next batch.
C6_ExhaustedBatch ==
    /\ []PushedAgainOnlyAsRetry
    /\ [][RetriesExhausted =>
            /\ import_result'.failed
                 = import_result.failed + Cardinality(chunks[batch_idx + 1])
            /\ Len(import_result'.errors) = Len(import_result.errors) + 1
            /\ import_result'.errors[Len(import_result'.errors)]
                 = [kind |-> "error", lang |-> LangCode(langIdx),
                    batch_num |-> batch_idx + 1]
            /\ import_result'.added = import_result.added
            /\ import_result'.updated = import_result.updated
            /\ MovedToNextBatch]_vars

\* The first of several batches has run out of rate-limit retries and the import
\* stands before the next batch.
C6_Witness ==
    /\ ipc = "delay"
    /\ cur.outcome = "failed_rate_limit"
    /\ cur.answer.status = "429"
    /\ cur.batch_num = 1
    /\ import_result.failed = 50
    /\ Len(import_result.errors) = 1

\* C7 as stated: a push that fails with an error that is not a rate-limit signal
\* from the remote is not retried and adds no backoff wait: the batch is counted
\* as failed after that single attempt.
C7_OtherErrorFailsAtOnce ==
    (cur.outcome \notin {"none", "ok"} /\ cur.answer.status # "429") =>
        cur.outcome # "retrying"

\* C8: once authentication and the local scan have succeeded, execute_import
\* terminates and returns an ImportResult for every sequence of push outcomes:
\* no push failure aborts the run, and every batch of every language with keys
\* is attempted at least once.
C8_Terminates ==
    /\ (ipc = "start") ~> (ipc = "done")
    /\ [](ipc \in {"start", "push", "delay"} => ~import_dry_run)
    /\ []((ipc = "done" /\ ~import_dry_run) => attempted = AllBatches)

\* execute_import has returned after a first batch that failed and a later
\* batch that was accepted.
C8_Witness ==
    /\ ipc = "done"
    /\ Len(import_result.errors) >= 1
    /\ import_result.errors[1] = [kind |-> "error", lang |-> LangCode(1),
                                  batch_num |-> 1]
    /\ import_result.added > 0
    /\ Cardinality(attempted) >= 2
    /\ attempted = AllBatches

----------------------------------------------------------------------------
(* SyncCmd::run from its step 4 on, with dry_run = false, and the writes   *)
(* of core/scanner.rs.                                                     *)
(*                                                                         *)
(* A path is <<language directory, file name>>.  A file whose content      *)
(* cannot be parsed as JSON holds Unparsed.                                *)

Unparsed == [t |-> "Invalid"]

\* The paths of the JSON files a messages directory can hold at the start.
FilePaths == {<<"en", "common.json">>, <<"en", "app.json">>, <<"zh", "common.json">>}

\* The languages the remote can return.
SyncLangs == {"en", "zh"}

\* read_dir order of the files: by language, then by name.
PathRank(path) ==
    CASE path = <<"en", "app.json">> -> 1
      [] path = <<"en", "common.json">> -> 2
      [] path = <<"en", "sync.json">> -> 3
      [] path = <<"zh", "common.json">> -> 4
      [] path = <<"zh", "sync.json">> -> 5

RECURSIVE SortedPaths(_)

SortedPaths(ps) ==
    IF ps = {} THEN <<>>
    ELSE LET q == CHOOSE x \in ps : \A y \in ps : PathRank(x) <= PathRank(y)
         IN <<q>> \o SortedPaths(ps \ {q})

\* The contents of a file: {"a":"x","b":1}, {"a":{"b":"x"},"b":"y"},
\* {"a":"x","b":{}}, or text that is not JSON.
FileTrees ==
    {Object((<<"a">> :> String("x")) @@ (<<"b">> :> [t |-> "Number"])),
     Object((<<"a">> :> Object(<<"b">> :> String("x"))) @@ (<<"b">> :> String("y"))),
     Object((<<"a">> :> String("x")) @@ (<<"b">> :> Object(EmptyMap))),
     Unparsed}

\* A file: its content and whether fs::write to it succeeds.
FileStates ==
    {[tree |-> t, writable |-> w] : t \in FileTrees \ {Unparsed}, w \in BOOLEAN}
        \cup {[tree |-> Unparsed, writable |-> TRUE]}

\* The messages directories a sync can start from.
Disks ==
    UNION {[ps -> FileStates] :
            ps \in {q \in SUBSET FilePaths : Cardinality(q) <= MaxFiles}}

\* The flat maps the remote returns for a language: {}, {"a":"z"},
\* {"a":"z","b":"z"}, {"a.b":"z"}.
IncomingMaps ==
    {EmptyMap,
     <<"a">> :> "z",
     (<<"a">> :> "z") @@ (<<"b">> :> "z"),
     <<"a", "b">> :> "z"}

\* The translations fetched from the remote, after the reverse mapping.
IncomingTranslations == UNION {[ls -> IncomingMaps] : ls \in SUBSET SyncLangs}

\* The insertion loop `for (key, value) in flat` of scan_language_dir over the
\* parsed files left.
RECURSIVE scan_files(_, _, _)

\* scan_files that gives up the language directory at the first file that fails.
scan_files_until_failure(d, files, lang_translations) ==
    IF files = <<>> \/ d[Head(files)].tree = Unparsed THEN lang_translations
    ELSE LET flatMap == flatten_object(d[Head(files)].tree, EmptyString, FALSE)
         IN scan_files(d, Tail(files),
                       merge_loop(lang_translations, flatMap, AnyOrder(DOMAIN flatMap)))

scan_files(d, files, lang_translations) ==
    IF files = <<>> THEN lang_translations
    ELSE LET json == d[Head(files)].tree
             flatMap == IF json = Unparsed THEN EmptyMap
                        ELSE flatten_object(json, EmptyString, FALSE)
         IN scan_files(d, Tail(files),
                       merge_loop(lang_translations, flatMap, AnyOrder(DOMAIN flatMap)))

\* scan_language_dir that lists the parsed files only.
scan_language_dir_parsed_only(d, lang_code) ==
    LET json_files == SortedPaths({q \in DOMAIN d : q[1] = lang_code})
        lang_translations == scan_files(d, json_files, EmptyMap)
    IN [translations |-> lang_translations,
        files |-> SelectSeq(json_files, LAMBDA q : d[q].tree # Unparsed),
        key_count |-> Cardinality(DOMAIN lang_translations)]

\* scan_language_dir with the number of its files as its key count.
scan_language_dir_counting_files(d, lang_code) ==
    LET json_files == SortedPaths({q \in DOMAIN d : q[1] = lang_code})
    IN [translations |-> scan_files(d, json_files, EmptyMap),
        files |-> json_files,
        key_count |-> Len(json_files)]

\* scan_language_dir: the flat translations of a language directory, its JSON
\* files and the number of its keys.
scan_language_dir(d, lang_code) ==
    LET json_files == SortedPaths({q \in DOMAIN d : q[1] = lang_code})
        lang_translations == scan_files(d, json_files, EmptyMap)
    IN [translations |-> lang_translations,
        files |-> json_files,
        key_count |-> Cardinality(DOMAIN lang_translations)]

\* read_dir order of the language directories.
LangRank(l) == CASE l = "en" -> 1 [] l = "fr" -> 2 [] l = "zh" -> 3

RECURSIVE SortedLangs(_)

SortedLangs(ls) ==
    IF ls = {} THEN <<>>
    ELSE LET l == CHOOSE x \in ls : \A y \in ls : LangRank(x) <= LangRank(y)
         IN <<l>> \o SortedLangs(ls \ {l})

\* The loop `for dir in lang_dirs` of scan_messages_dir over the directories
\* left; readable[dir] tells whether scan_language_dir(dir) returns Ok.
RECURSIVE scan_lang_dirs(_, _, _, _)

scan_lang_dirs(d, readable, lang_dirs, acc) ==
    IF lang_dirs = <<>> THEN acc
    ELSE LET dir == Head(lang_dirs)
             r == scan_language_dir(d, dir)
         IN scan_lang_dirs(d, readable, Tail(lang_dirs),
                IF readable[dir]
                THEN [translations |-> (dir :> r.translations) @@ acc.translations,
                      files |-> acc.files \o r.files,
                      key_count |-> acc.key_count + r.key_count]
                ELSE acc)

\* scan_messages_dir of a directory that is there: every language directory
\* that can be read, with its translations, its JSON files and its keys counted.
scan_messages_dir(d, readable) ==
    scan_lang_dirs(d, readable, SortedLangs(DOMAIN readable), ScanResultEmpty)

\* The languages that have a file under the root d.
LanguagesOf(d) == {q[1] : q \in DOMAIN d}

\* files_by_lang of write_translations_with_structure: the languages with files.
files_by_lang(files) == {files[i][1] : i \in 1..Len(files)}

\* The files of `files` grouped by language, the languages in the order `langs`.
RECURSIVE GroupedFiles(_, _)

GroupedFiles(files, langs) ==
    IF langs = <<>> THEN <<>>
    ELSE SelectSeq(files, LAMBDA f : f[1] = Head(langs))
            \o GroupedFiles(files, Tail(langs))

\* A merge that takes only the incoming keys the file already holds.
merge_translations_own_keys(original_data, lang_translations) ==
    LET flat_original == flatten_object(original_data, EmptyString, FALSE)
    IN merge_loop(flat_original, lang_translations,
                  AnyOrder((DOMAIN lang_translations) \cap DOMAIN flat_original))

\* `merged` of merge_translations_with_structure before it is unflattened.
merge_translations_flat(original_data, lang_translations) ==
    merge_loop(flatten_object(original_data, EmptyString, FALSE), lang_translations,
               AnyOrder(DOMAIN lang_translations))

\* A merge that takes the new value of a key the file already holds only when
\* forced.
merge_translations_if_forced(original_data, lang_translations, _force, keys) ==
    unflatten_object(
        IF _force THEN merge_translations_flat(original_data, lang_translations)
        ELSE merge_loop_keep(flatten_object(original_data, EmptyString, FALSE),
                             lang_translations, AnyOrder(DOMAIN lang_translations)),
        keys)

\* merge_translations_with_structure with its unflatten iterated in the order
\* `keys`; `_force` is not used.
merge_translations_with_structure(original_data, lang_translations, _force, keys) ==
    unflatten_object(merge_translations_flat(original_data, lang_translations), keys)

\* The test of the counting loop of execute_sync that ignores `force`.
counts_as_downloaded_unforced(local_translations, key) ==
    key \notin DOMAIN local_translations

\* `self.force || !local_translations.contains_key(key)` of execute_sync.
counts_as_downloaded(local_translations, key) ==
    force \/ key \notin DOMAIN local_translations

\* The counting loop of execute_sync: the <<language, key>> counted as downloaded.
DownloadedKeys ==
    UNION {{<<l, k>> : k \in {x \in DOMAIN incoming[l] :
                counts_as_downloaded(
                    IF l \in DOMAIN local_scan_result.translations
                    THEN local_scan_result.translations[l] ELSE EmptyMap, x)}} :
           l \in DOMAIN incoming}

\* The counting loop of execute_sync: the <<language, key>> counted as skipped.
SkippedKeys ==
    UNION {{<<l, k>> : k \in {x \in DOMAIN incoming[l] :
                ~counts_as_downloaded(
                    IF l \in DOMAIN local_scan_result.translations
                    THEN local_scan_result.translations[l] ELSE EmptyMap, x)}} :
           l \in DOMAIN incoming}

\* `total_keys` of run, counting the languages fetched and not their keys.
total_keys_counting_languages(trans) == Cardinality(DOMAIN trans)

\* `total_keys` of run.
total_keys(trans) ==
    Cardinality(UNION {{<<l, k>> : k \in DOMAIN trans[l]} : l \in DOMAIN trans})

InitSync ==
    /\ force \in BOOLEAN
    /\ disk \in Disks
    /\ disk0 = disk
    /\ disk_flip = disk
    /\ dir_writable \in BOOLEAN
    /\ incoming \in IncomingTranslations
    /\ spc = "auth"
    /\ local_scan_result = ScanResultEmpty
    /\ todo = <<>>
    /\ written = <<>>
    /\ sync_result = SyncResultNone
    /\ write_failed = NoPath
    /\ dry_run \in BOOLEAN
    /\ run_no = 1
    /\ sync_calls = <<>>
    /\ sync_diff = <<>>
    /\ FlattenIdle
    /\ ImportIdle
    /\ ScanIdle
    /\ MapperIdle

\* Step 3 of run: the authentication, and the error it returns when the check
\* fails or says no.
SyncAuth ==
    /\ spc = "auth"
    /\ \E answer \in AuthAnswers :
            /\ sync_calls' = Append(sync_calls, Call("check_auth", answer))
            /\ IF Authenticated(answer)
               THEN spc' = "start" /\ UNCHANGED sync_result
               ELSE /\ spc' = "error"
                    /\ sync_result' = [SyncResultNone EXCEPT !.ret = "Err"]
    /\ UNCHANGED <<dry_run, run_no, sync_diff, force, disk, disk0, disk_flip, dir_writable,
                   incoming, local_scan_result, todo, written, write_failed>>
    /\ UNCHANGED outsideSync

\* Step 4 of run when get_translations fails: the `?` returns the error.
SyncFetchFail ==
    /\ spc = "start"
    /\ sync_calls' = Append(sync_calls, Call("get_translations", Failed))
    /\ spc' = "error"
    /\ sync_result' = [SyncResultNone EXCEPT !.ret = "Err"]
    /\ UNCHANGED <<dry_run, run_no, sync_diff, force, disk, disk0, disk_flip, dir_writable,
                   incoming, local_scan_result, todo, written, write_failed>>
    /\ UNCHANGED outsideSync

\* The orders in which the keys of each language of trans can be iterated.
KeyOrders(trans) ==
    {f \in [DOMAIN trans -> UNION {Perms(DOMAIN trans[l]) : l \in DOMAIN trans}] :
        \A l \in DOMAIN trans : f[l] \in Perms(DOMAIN trans[l])}

\* show_sync_diff with every incoming key reported as new.
show_sync_diff_all_new(backend, local, order) ==
    [lang \in DOMAIN backend |-> [new_keys |-> order[lang], existing_keys |-> <<>>]]

\* show_sync_diff: for each language of backend, the keys local lacks and the
\* keys local has, each in the order the keys of the language are iterated.
show_sync_diff(backend, local, order) ==
    [lang \in DOMAIN backend |->
        LET local_lang == IF lang \in DOMAIN local THEN local[lang] ELSE EmptyMap
        IN [new_keys |-> SelectSeq(order[lang], LAMBDA k : k \notin DOMAIN local_lang),
            existing_keys |-> SelectSeq(order[lang], LAMBDA k : k \in DOMAIN local_lang)]]

\* Step 6 of run with the diff shown and then the files written all the same.
after_scan_ignoring_dry_run(dry) == "write"

\* Step 6 of run: `if self.dry_run { show_sync_diff; return Ok(default) }`,
\* else execute_sync.
after_scan(dry) == IF dry THEN "done" ELSE "write"

\* run from the fetch to the first file of write_translations_with_structure:
\* nothing fetched ends the run; else the local scan; then the diff and the
\* return of a dry run, or the files grouped by language in the order of a
\* HashMap.
SyncStart ==
    /\ spc = "start"
    /\ IF total_keys(incoming) = 0
       THEN /\ spc' = "done"
            /\ sync_calls' = Append(sync_calls, Call("get_translations", Succeeded))
            /\ sync_result' = [SyncResultNone EXCEPT !.ret = "Ok"]
            /\ UNCHANGED <<local_scan_result, todo, sync_diff>>
       ELSE /\ sync_calls' = sync_calls \o <<Call("get_translations", Succeeded),
                                               Call("scan_messages_dir", Scanned)>>
            /\ local_scan_result' =
                    scan_messages_dir(disk, [l \in LanguagesOf(disk) |-> TRUE])
            /\ spc' = after_scan(dry_run)
            /\ IF dry_run
               THEN /\ \E order \in KeyOrders(incoming) :
                        sync_diff' = show_sync_diff(incoming,
                                        local_scan_result'.translations, order)
                    /\ IF spc' = "done"
                       THEN sync_result' = [SyncResultNone EXCEPT !.ret = "Ok"]
                       ELSE UNCHANGED sync_result
               ELSE UNCHANGED <<sync_result, sync_diff>>
            /\ IF spc' = "write"
               THEN \E langs \in Perms(files_by_lang(local_scan_result'.files)) :
                        todo' = GroupedFiles(local_scan_result'.files, langs)
               ELSE UNCHANGED todo
    /\ UNCHANGED <<dry_run, run_no, force, disk, disk0, disk_flip, dir_writable, incoming,
                   written, write_failed>>
    /\ UNCHANGED outsideSync

\* `None => continue`: the language of the next files has no translations.
SkipLanguage ==
    /\ spc = "write" /\ todo # <<>>
    /\ Head(todo)[1] \notin DOMAIN incoming
    /\ todo' = SelectSeq(todo, LAMBDA f : f[1] # Head(todo)[1])
    /\ UNCHANGED <<dry_run, run_no, sync_calls, sync_diff, force, disk, disk0, disk_flip, dir_writable, incoming, spc,
                   local_scan_result, written, sync_result, write_failed>>
    /\ UNCHANGED outsideSync

\* The next file cannot be parsed: a warning, and the next file.
SkipUnparsed ==
    /\ spc = "write" /\ todo # <<>>
    /\ Head(todo)[1] \in DOMAIN incoming
    /\ disk[Head(todo)].tree = Unparsed
    /\ todo' = Tail(todo)
    /\ UNCHANGED <<dry_run, run_no, sync_calls, sync_diff, force, disk, disk0, disk_flip, dir_writable, incoming, spc,
                   local_scan_result, written, sync_result, write_failed>>
    /\ UNCHANGED outsideSync

\* The next file is merged and written.
WriteFile ==
    /\ spc = "write" /\ todo # <<>>
    /\ Head(todo)[1] \in DOMAIN incoming
    /\ disk[Head(todo)].tree # Unparsed
    /\ disk[Head(todo)].writable
    /\ LET file == Head(todo)
           lang_translations == incoming[file[1]]
           flatMerged == merge_translations_flat(disk[file].tree, lang_translations)
       IN /\ \E keys \in Perms(DOMAIN flatMerged) :
                disk' = [disk EXCEPT ![file].tree =
                            merge_translations_with_structure(
                                disk[file].tree, lang_translations, force, keys)]
          /\ \E keys \in Perms(DOMAIN flatMerged) :
                disk_flip' = [disk_flip EXCEPT ![file].tree =
                                merge_translations_with_structure(
                                    disk_flip[file].tree, lang_translations, ~force, keys)]
    /\ written' = Append(written, Head(todo))
    /\ todo' = Tail(todo)
    /\ UNCHANGED <<dry_run, run_no, sync_calls, sync_diff, force, disk0, dir_writable, incoming, spc, local_scan_result,
                   sync_result, write_failed>>
    /\ UNCHANGED outsideSync

\* fs::write of the next file fails: the `?` returns the error from
\* write_translations_with_structure, and execute_sync returns it from run.
WriteFileFail ==
    /\ spc = "write" /\ todo # <<>>
    /\ Head(todo)[1] \in DOMAIN incoming
    /\ disk[Head(todo)].tree # Unparsed
    /\ ~disk[Head(todo)].writable
    /\ write_failed' = Head(todo)
    /\ spc' = "error"
    /\ sync_result' = [SyncResultNone EXCEPT !.ret = "Err"]
    /\ UNCHANGED <<dry_run, run_no, sync_calls, sync_diff, force, disk, disk0, disk_flip, dir_writable, incoming, local_scan_result,
                   todo, written>>
    /\ UNCHANGED outsideSync

\* The languages with no file, those with an empty key map among them.
NewLanguagesEmptyToo ==
    {l \in DOMAIN incoming : l \notin files_by_lang(local_scan_result.files)}

\* The languages write_new_language_files makes a sync.json for.
NewLanguages ==
    {l \in DOMAIN incoming :
        l \notin files_by_lang(local_scan_result.files) /\ incoming[l] # EmptyMap}

\* The trees unflatten_object can give for a flat map.
Unflattened(flatMap) == {unflatten_object(flatMap, keys) : keys \in Perms(DOMAIN flatMap)}

\* The files d with a sync.json added for every new language.
WithNewLanguageFiles(d) ==
    {[q \in (DOMAIN d) \cup {<<l, "sync.json">> : l \in NewLanguages} |->
            IF q \in DOMAIN d THEN d[q]
            ELSE [tree |-> trees[q[1]], writable |-> TRUE]] :
        trees \in {t \in [NewLanguages ->
                            UNION {Unflattened(incoming[l]) : l \in NewLanguages}] :
                        \A l \in NewLanguages : t[l] \in Unflattened(incoming[l])}}

\* write_new_language_files: every language with translations and no file gets
\* its directory and its sync.json.
WriteNewLanguages ==
    /\ spc = "write" /\ todo = <<>>
    /\ NewLanguages = {} \/ dir_writable
    /\ disk' \in WithNewLanguageFiles(disk)
    /\ disk_flip' \in WithNewLanguageFiles(disk_flip)
    /\ \E langs \in Perms(NewLanguages) :
            written' = written \o [i \in 1..Len(langs) |-> <<langs[i], "sync.json">>]
    /\ spc' = "count"
    /\ UNCHANGED <<dry_run, run_no, sync_calls, sync_diff, force, disk0, dir_writable, incoming, local_scan_result, todo,
                   sync_result, write_failed>>
    /\ UNCHANGED outsideSync

\* create_dir_all or std::fs::write of a new language fails: the `?` returns
\* the error, and execute_sync returns it from run.
WriteNewLanguagesFail ==
    /\ spc = "write" /\ todo = <<>>
    /\ NewLanguages # {} /\ ~dir_writable
    /\ \E l \in NewLanguages : write_failed' = <<l, "sync.json">>
    /\ spc' = "error"
    /\ sync_result' = [SyncResultNone EXCEPT !.ret = "Err"]
    /\ UNCHANGED <<dry_run, run_no, sync_calls, sync_diff, force, disk, disk0, disk_flip, dir_writable, incoming, local_scan_result,
                   todo, written>>
    /\ UNCHANGED outsideSync

\* execute_sync after the writes: the counting loop, and Ok(result).
CountStats ==
    /\ spc = "count"
    /\ sync_result' = [ret |-> "Ok",
                       downloaded |-> Cardinality(DownloadedKeys),
                       skipped |-> Cardinality(SkippedKeys),
                       written |-> Len(written),
                       errors |-> <<>>]
    /\ spc' = "done"
    /\ UNCHANGED <<dry_run, run_no, sync_calls, sync_diff, force, disk, disk0, disk_flip, dir_writable, incoming, local_scan_result,
                   todo, written, write_failed>>
    /\ UNCHANGED outsideSync

\* The command is run again after a real run that returned Ok, against the
\* same remote translations and the files the run before left.
SyncAgain ==
    /\ spc = "done" /\ ~dry_run
    /\ run_no < MaxRuns
    /\ run_no' = run_no + 1
    /\ spc' = "auth"
    /\ disk0' = disk
    /\ disk_flip' = disk
    /\ local_scan_result' = ScanResultEmpty
    /\ todo' = <<>>
    /\ written' = <<>>
    /\ sync_result' = SyncResultNone
    /\ write_failed' = NoPath
    /\ sync_calls' = <<>>
    /\ sync_diff' = <<>>
    /\ UNCHANGED <<dry_run, force, disk, dir_writable, incoming>>
    /\ UNCHANGED outsideSync

NextSync ==
    \/ SyncAuth
    \/ SyncFetchFail
    \/ SyncAgain
    \/ SyncStart
    \/ SkipLanguage
    \/ SkipUnparsed
    \/ WriteFile
    \/ WriteFileFail
    \/ WriteNewLanguages
    \/ WriteNewLanguagesFail
    \/ CountStats

SpecSync == InitSync /\ [][NextSync]_vars

----------------------------------------------------------------------------
(* Properties of the sync.                                                 *)

\* The keys the local scan of a language finds, from the files as they were
\* when the sync started.
LocalKeys(l) ==
    UNION {DOMAIN flatten_object(disk0[q].tree, EmptyString, FALSE) :
            q \in {x \in DOMAIN disk0 : x[1] = l /\ disk0[x].tree # Unparsed}}

\* The incoming keys, per language.
IncomingKeys == UNION {{<<l, k>> : k \in DOMAIN incoming[l]} : l \in DOMAIN incoming}

\* C3: a real sync that returns Ok counts each incoming key (per language) exactly
\* once: as downloaded if force is true or the key is absent from the local scan
\* of that language, otherwise as skipped; so downloaded + skipped is the number
\* of incoming keys, and skipped = 0 whenever force is true.
C3_SyncCounts ==
    (spc = "done" /\ sync_result.ret = "Ok" /\ ~dry_run) =>
        LET down == {lk \in IncomingKeys : force \/ lk[2] \notin LocalKeys(lk[1])}
        IN /\ sync_result.downloaded = Cardinality(down)
           /\ sync_result.skipped = Cardinality(IncomingKeys \ down)
           /\ sync_result.downloaded + sync_result.skipped = Cardinality(IncomingKeys)
           /\ force => sync_result.skipped = 0

\* A forced sync has returned after it wrote a file that already held one of
\* the incoming keys and lacked another.
C3_Witness ==
    /\ spc = "done"
    /\ sync_result.ret = "Ok"
    /\ force
    /\ written # <<>>
    /\ \E lk \in IncomingKeys : lk[2] \in LocalKeys(lk[1])
    /\ \E lk \in IncomingKeys : lk[2] \notin LocalKeys(lk[1])

\* C9 as stated: a write that fails during a sync does not abort the run: the
\* file is skipped and the sync goes on.
C9_WriteErrorSkipped ==
    write_failed # NoPath => (spc # "error" /\ sync_result.ret # "Err")

RECURSIVE EntriesOf(_, _, _)

\* The entries below the object v: <<keys from the root, dot path, value>>.
EntriesOf(v, path, dotPath) ==
    IF v.t # "Object" THEN {}
    ELSE UNION {{<<Append(path, k), dotPath \o k, v.map[k]>>}
                    \cup EntriesOf(v.map[k], Append(path, k), dotPath \o k) :
                k \in DOMAIN v.map}

RECURSIVE ValueAt(_, _)

\* The value at the end of `path` from the root v, or NoValue.
ValueAt(v, path) ==
    IF path = <<>> THEN v
    ELSE IF v.t = "Object" /\ Head(path) \in DOMAIN v.map
    THEN ValueAt(v.map[Head(path)], Tail(path))
    ELSE NoValue

\* The dot paths p and k name the same entry, or one lies below the other.
OnOnePath(p, k) == p = k \/ IsProperPrefix(p, k) \/ IsProperPrefix(k, p)

\* C10 as stated: a file the sync has merged and written holds, unchanged and at
\* the same position, every entry of its original tree that no incoming key
\* names, lies below or lies above, whatever the type of its value.
C10_OtherEntriesKept ==
    \A i \in 1..Len(written) :
        written[i] \in DOMAIN disk0 =>
            \A e \in EntriesOf(disk0[written[i]].tree, <<>>, <<>>) :
                (\A k \in DOMAIN incoming[written[i][1]] : ~OnOnePath(e[2], k))
                    => ValueAt(disk[written[i]].tree, e[1]) = e[3]

C12_NewLanguageFile ==
    /\ (spc = "done" /\ sync_result.ret = "Ok" /\ ~dry_run) =>
        \A l \in DOMAIN incoming :
            (incoming[l] # EmptyMap /\ l \notin LanguagesOf(disk0)) =>
                /\ <<l, "sync.json">> \in DOMAIN disk
                /\ disk[<<l, "sync.json">>].tree \in Unflattened(incoming[l])
                /\ flatten_object(disk[<<l, "sync.json">>].tree, EmptyString, FALSE)
                        = incoming[l]
                /\ Cardinality({i \in 1..Len(written) : written[i] = <<l, "sync.json">>}) = 1
                /\ sync_result.written = Len(written)
    /\ \A l \in SyncLangs :
        (l \notin DOMAIN incoming \/ incoming[l] = EmptyMap) =>
            {q \in DOMAIN disk : q[1] = l} = {q \in DOMAIN disk0 : q[1] = l}

\* A sync has returned after it made the sync.json of a language that had no
\* file, while another language with no file had an empty incoming key map.
C12_Witness ==
    /\ spc = "done"
    /\ sync_result.ret = "Ok"
    /\ \E l \in DOMAIN incoming :
        /\ l \notin LanguagesOf(disk0)
        /\ <<l, "sync.json">> \in DOMAIN disk
        /\ sync_result.written >= 1
    /\ \E l \in DOMAIN incoming :
        /\ incoming[l] = EmptyMap
        /\ l \notin LanguagesOf(disk)

----------------------------------------------------------------------------
(* scan_messages_dir on its own (core/scanner.rs).                         *)

\* A subdirectory of the root that holds no JSON file.
EmptyDirs == {"fr"}

\* The directories scan_messages_dir can be handed: one that is not there, or
\* one with its JSON files and its subdirectories, each of which can or cannot
\* be read by collect_json_files.
MessagesDirs ==
    {[exists |-> FALSE, dirs |-> <<>>, files |-> <<>>]}
        \cup UNION {{[exists |-> TRUE, dirs |-> r, files |-> d] :
                        r \in UNION {[LanguagesOf(d) \cup e -> BOOLEAN] :
                                        e \in SUBSET EmptyDirs}} :
                    d \in Disks}

InitScan ==
    /\ messages_dir \in MessagesDirs
    /\ scan_pc = "start"
    /\ scan_out = [ret |-> "none", result |-> ScanResultEmpty]
    /\ FlattenIdle
    /\ ImportIdle
    /\ SyncIdle
    /\ MapperIdle

\* canonicalize fails: "Messages directory not found".
ScanNotFound ==
    /\ scan_pc = "start"
    /\ ~messages_dir.exists
    /\ scan_out' = [ret |-> "Err", result |-> ScanResultEmpty]
    /\ scan_pc' = "done"
    /\ UNCHANGED messages_dir
    /\ UNCHANGED outsideScan

\* scan_messages_dir of a directory that is there returns Ok(ScanResult).
ScanDirectory ==
    /\ scan_pc = "start"
    /\ messages_dir.exists
    /\ scan_out' = [ret |-> "Ok",
                    result |-> scan_messages_dir(messages_dir.files, messages_dir.dirs)]
    /\ scan_pc' = "done"
    /\ UNCHANGED messages_dir
    /\ UNCHANGED outsideScan

NextScan == ScanNotFound \/ ScanDirectory

SpecScan == InitScan /\ [][NextScan]_vars

----------------------------------------------------------------------------
(* Properties of scan_messages_dir.                                        *)

\* The files of the language directory l that were read and parsed.
ParsedFiles(l) ==
    {q \in DOMAIN messages_dir.files : q[1] = l /\ messages_dir.files[q].tree # Unparsed}

\* The subdirectories of the root whose files could be listed.
ReadableDirs == {l \in DOMAIN messages_dir.dirs : messages_dir.dirs[l]}

\* The elements of a sequence.
Range(seq) == {seq[i] : i \in 1..Len(seq)}

\* C13 as stated: ScanResult.files holds exactly the files that were read and
\* parsed, each as <language code>/<file>; a file that failed is not listed.
C13_FilesAreTheParsedOnes ==
    scan_out.ret = "Ok" =>
        Range(scan_out.result.files) = UNION {ParsedFiles(l) : l \in ReadableDirs}

\* C13 amended: ScanResult.files holds exactly the .json files found in the
\* language directories that could be listed, whether or not they were read
\* and parsed, each once and as <language code>/<file>.
C13_FilesAreTheFoundOnes ==
    scan_out.ret = "Ok" =>
        /\ Range(scan_out.result.files)
            = {q \in DOMAIN messages_dir.files : q[1] \in ReadableDirs}
        /\ Len(scan_out.result.files) = Cardinality(Range(scan_out.result.files))
        /\ \A q \in Range(scan_out.result.files) :
            q[1] \in DOMAIN scan_out.result.translations

\* A scan has returned Ok with a file that failed and a file that was parsed,
\* both listed.
C13_Witness ==
    /\ scan_out.ret = "Ok"
    /\ \E q \in Range(scan_out.result.files) : messages_dir.files[q].tree = Unparsed
    /\ \E q \in Range(scan_out.result.files) : messages_dir.files[q].tree # Unparsed

KeysOfResult ==
    Cardinality(UNION {{<<l, k>> : k \in DOMAIN scan_out.result.translations[l]} :
                        l \in DOMAIN scan_out.result.translations})

\* C15 as stated: scan_messages_dir returns one language entry for each
\* immediate subdirectory of the root, keyed by the directory name, and
\* key_count is the sum over the languages of the number of their keys.
C15_EntryPerSubdirectory ==
    scan_out.ret = "Ok" =>
        /\ DOMAIN scan_out.result.translations = DOMAIN messages_dir.dirs
        /\ scan_out.result.key_count = KeysOfResult

\* C15 amended: scan_messages_dir returns one language entry for each immediate
\* subdirectory of the root whose files could be listed, keyed by the directory
\* name, and none for a subdirectory that could not be read; key_count is the
\* sum over the languages of the number of their keys.
C15_EntryPerReadableSubdirectory ==
    scan_out.ret = "Ok" =>
        /\ DOMAIN scan_out.result.translations = ReadableDirs
        /\ scan_out.result.key_count = KeysOfResult

\* A scan has returned two languages with keys, and found a subdirectory with
\* no JSON file.
C15_Witness ==
    /\ scan_out.ret = "Ok"
    /\ \E l \in ReadableDirs : l \notin LanguagesOf(messages_dir.files)
    /\ Cardinality({l \in DOMAIN scan_out.result.translations :
                        scan_out.result.translations[l] # EmptyMap}) = 2
    /\ scan_out.result.key_count >= 2

----------------------------------------------------------------------------
(* core/language_mapping.rs                                                *)

\* The local codes and the backend codes a mapping is made of.
LocalCodes == {"zh_CN", "zh_SG", "zh_TW"}

BackendCodes == {"zh", "tw"}

\* The configured mappings: at most MaxMappings entries.
Mappings ==
    UNION {[ls -> BackendCodes] :
            ls \in {x \in SUBSET LocalCodes : Cardinality(x) <= MaxMappings}}

\* The flat maps of a language handed to the mapper: {"a":"x"}, {"a":"y","b":"y"},
\* {"b":"z"}.
MapperFlatMaps ==
    {<<"a">> :> "x", (<<"a">> :> "y") @@ (<<"b">> :> "y"), <<"b">> :> "z"}

\* The translations handed to the mapper: some of two local codes and of a
\* code that is also a backend code.
MapperInputs ==
    UNION {[cs -> MapperFlatMaps] : cs \in SUBSET {"zh_CN", "zh_SG", "zh"}}

\* The loop `for (local, backend) in &mapping` of new over the entries left.
RECURSIVE new_loop(_, _, _)

new_loop(map, locals, self) ==
    IF locals = <<>> THEN self
    ELSE LET local == Head(locals)
             backend == map[local]
         IN new_loop(map, Tail(locals),
                [local_to_backend |-> MapInsert(self.local_to_backend, local, backend),
                 backend_to_local |-> MapInsert(self.backend_to_local, backend, local)])

\* LanguageMapper::new with the HashMap `mapping` iterated in the order `locals`.
new(map, locals) == new_loop(map, locals, MapperDefault)

to_backend(self, local_code) ==
    IF local_code \in DOMAIN self.local_to_backend
    THEN self.local_to_backend[local_code]
    ELSE local_code

\* to_local with no table behind it.
to_local_unmapped(self, backend_code) == backend_code

to_local(self, backend_code) ==
    IF backend_code \in DOMAIN self.backend_to_local
    THEN self.backend_to_local[backend_code]
    ELSE backend_code

RECURSIVE apply_loop(_, _, _, _)

\* The loop of apply_to_translations that binds the backend code to the data of
\* the language at hand, in the place of extending what is bound to it.
apply_loop_insert(self, translations, codes, result) ==
    IF codes = <<>> THEN result
    ELSE apply_loop(self, translations, Tail(codes),
                    MapInsert(result, to_backend(self, Head(codes)),
                              translations[Head(codes)]))

\* The loop `for (local_code, lang_data) in translations` of
\* apply_to_translations over the codes left.
apply_loop(self, translations, codes, result) ==
    IF codes = <<>> THEN result
    ELSE LET local_code == Head(codes)
             lang_data == translations[local_code]
             backend_code == to_backend(self, local_code)
             result1 == IF backend_code \notin DOMAIN result
                        THEN MapInsert(result, backend_code, EmptyMap)
                        ELSE result
             target == merge_loop(result1[backend_code], lang_data,
                                  AnyOrder(DOMAIN lang_data))
         IN apply_loop(self, translations, Tail(codes),
                       MapInsert(result1, backend_code, target))

\* apply_to_translations with its HashMap iterated in the order `codes`.
apply_to_translations(self, translations, codes) ==
    apply_loop(self, translations, codes, EmptyMap)

\* The loop `for (backend_code, lang_data) in translations` of
\* reverse_translations over the codes left.
RECURSIVE reverse_loop(_, _, _, _)

reverse_loop(self, translations, codes, result) ==
    IF codes = <<>> THEN result
    ELSE LET backend_code == Head(codes)
             lang_data == translations[backend_code]
             local_code == to_local(self, backend_code)
             result1 == IF local_code \notin DOMAIN result
                        THEN MapInsert(result, local_code, EmptyMap)
                        ELSE result
             target == merge_loop(result1[local_code], lang_data,
                                  AnyOrder(DOMAIN lang_data))
         IN reverse_loop(self, translations, Tail(codes),
                         MapInsert(result1, local_code, target))

\* reverse_translations with its HashMap iterated in the order `codes`.
reverse_translations(self, translations, codes) ==
    reverse_loop(self, translations, codes, EmptyMap)

InitMapper ==
    /\ mapping \in Mappings
    /\ mapper = MapperDefault
    /\ mapper_input \in MapperInputs
    /\ mapper_pc = "start"
    /\ mapper_output = <<>>
    /\ FlattenIdle
    /\ ImportIdle
    /\ SyncIdle
    /\ ScanIdle

\* LanguageMapper::new(Some(config.language_mapping)).
NewMapper ==
    /\ mapper_pc = "start"
    /\ \E locals \in Perms(DOMAIN mapping) : mapper' = new(mapping, locals)
    /\ mapper_pc' = "built"
    /\ UNCHANGED <<mapping, mapper_input, mapper_output>>
    /\ UNCHANGED outsideMapper

\* language_mapper.apply_to_translations(translations) of the import.
ApplyToTranslations ==
    /\ mapper_pc = "built"
    /\ \E codes \in Perms(DOMAIN mapper_input) :
            mapper_output' = apply_to_translations(mapper, mapper_input, codes)
    /\ mapper_pc' = "applied"
    /\ UNCHANGED <<mapping, mapper, mapper_input>>
    /\ UNCHANGED outsideMapper

\* language_mapper.reverse_translations(backend_translations) of the sync.
ReverseTranslations ==
    /\ mapper_pc = "built"
    /\ \E codes \in Perms(DOMAIN mapper_input) :
            mapper_output' = reverse_translations(mapper, mapper_input, codes)
    /\ mapper_pc' = "reversed"
    /\ UNCHANGED <<mapping, mapper, mapper_input>>
    /\ UNCHANGED outsideMapper

NextMapper == NewMapper \/ ApplyToTranslations \/ ReverseTranslations

SpecMapper == InitMapper /\ [][NextMapper]_vars

----------------------------------------------------------------------------
(* Properties of the language mapper.                                      *)

\* The codes of the input that apply_to_translations sends to `backend_code`.
SourcesOf(backend_code) ==
    {c \in DOMAIN mapper_input : to_backend(mapper, c) = backend_code}

\* C16: when several local codes map to the same backend code,
\* apply_to_translations returns exactly one entry for that backend code, whose
\* key set is the union of the key sets of all its source languages; a key that
\* only one of the sources defines keeps that source's value.
C16_MergedBackendEntry ==
    mapper_pc = "applied" =>
        /\ DOMAIN mapper_output = {to_backend(mapper, c) : c \in DOMAIN mapper_input}
        /\ \A b \in DOMAIN mapper_output :
            /\ DOMAIN mapper_output[b]
                = UNION {DOMAIN mapper_input[c] : c \in SourcesOf(b)}
            /\ \A c \in SourcesOf(b) : \A k \in DOMAIN mapper_input[c] :
                (\A o \in SourcesOf(b) \ {c} : k \notin DOMAIN mapper_input[o])
                    => mapper_output[b][k] = mapper_input[c][k]

\* Two local codes mapped to the same backend code were applied, each with a
\* key the other lacks.
C16_Witness ==
    /\ mapper_pc = "applied"
    /\ \E c1 \in DOMAIN mapping, c2 \in DOMAIN mapping :
        /\ c1 # c2
        /\ mapping[c1] = mapping[c2]
        /\ {c1, c2} \subseteq DOMAIN mapper_input
        /\ DOMAIN mapper_input[c1] \ DOMAIN mapper_input[c2] # {}
        /\ DOMAIN mapper_input[c2] \ DOMAIN mapper_input[c1] # {}
        /\ Cardinality(DOMAIN mapper_output[mapping[c1]]) = 2

\* The codes left unchanged: those with no entry in the table looked up.
FallsBack ==
    /\ \A c \in (LocalCodes \cup BackendCodes) \ DOMAIN mapping :
            to_backend(mapper, c) = c
    /\ \A c \in (LocalCodes \cup BackendCodes) \ {mapping[l] : l \in DOMAIN mapping} :
            to_local(mapper, c) = c

\* C17 as stated: for every entry local -> remote of the mapping,
\* to_backend(local) = remote and to_local(remote) = local; a code with no entry
\* in the table looked up is returned unchanged.
C17_BothWays ==
    mapper_pc = "built" =>
        /\ \A l \in DOMAIN mapping :
            /\ to_backend(mapper, l) = mapping[l]
            /\ to_local(mapper, mapping[l]) = l
        /\ FallsBack

\* C17 amended: for every entry local -> remote of the mapping,
\* to_backend(local) = remote, and to_local(remote) is a local code mapped to
\* remote: it is `local` when no other entry maps to the same remote; a code
\* with no entry in the table looked up is returned unchanged.
C17_BothWaysWhenOneToOne ==
    mapper_pc = "built" =>
        /\ \A l \in DOMAIN mapping :
            /\ to_backend(mapper, l) = mapping[l]
            /\ to_local(mapper, mapping[l]) \in {o \in DOMAIN mapping : mapping[o] = mapping[l]}
            /\ (\A o \in DOMAIN mapping \ {l} : mapping[o] # mapping[l])
                    => to_local(mapper, mapping[l]) = l
        /\ FallsBack

\* A mapper was built from two entries with different backend codes.
C17_Witness ==
    /\ mapper_pc = "built"
    /\ Cardinality(DOMAIN mapping) = 2
    /\ \A l \in DOMAIN mapping, o \in DOMAIN mapping : l # o => mapping[l] # mapping[o]
    /\ \A l \in DOMAIN mapping : to_local(mapper, mapping[l]) = l

RECURSIVE StringLeaves(_, _)

\* The string leaves below the object v: <<dot-joined path, value>>, where
\* `path` is the dot-joined path to v (<<>> at the root).
StringLeaves(v, path) ==
    IF v.t # "Object" THEN {}
    ELSE UNION {IF v.map[k].t = "String" THEN {<<path \o k, v.map[k].s>>}
                ELSE StringLeaves(v.map[k], path \o k) :
                k \in DOMAIN v.map}

\* The entries of a flat map: <<key, value>>.
EntriesOfFlat(f) == {<<k, f[k]>> : k \in DOMAIN f}

DistinctLeafPaths(T) ==
    /\ \A e1 \in StringLeaves(T, <<>>), e2 \in StringLeaves(T, <<>>) :
            e1[1] = e2[1] => e1 = e2
    /\ EmptyString \in DOMAIN T.map => T.map[EmptyString].t # "Object"

C19_BackoffWaits ==
    /\ Len(cur.waits) = (IF cur.outcome = "retrying" THEN cur.attempts
                         ELSE IF cur.outcome = "none" THEN 0
                         ELSE cur.attempts - 1)
    /\ \A k \in 1..Len(cur.waits) : cur.waits[k] = BATCH_DELAY * (2 * k)
    /\ Len(cur.waits) >= 1 => cur.waits[1] = 400
    /\ Len(cur.waits) >= 2 => cur.waits[2] = 800
    /\ (cur.outcome = "ok" /\ cur.attempts = 3) => cur.waits = <<400, 800>>

\* A batch has been accepted on its third attempt, after two rate-limited ones.
C19_Witness ==
    /\ cur.outcome = "ok"
    /\ cur.attempts = 3
    /\ cur.waits = <<400, 800>>
    /\ import_result.added > 0

\* The batches that have a batch of the same language pushed or about to be
\* pushed after them.
BatchesLeftBehind ==
    {<<l, b>> \in (1..Len(itrans)) \X (1..MaxBatches) :
        \/ l < langIdx /\ b < CeilDiv(itrans[l], 50)
        \/ l = langIdx /\ b <= batch_idx}

\* C20: between two consecutive batches of the same language one delay of
\* 200 ms is applied, once the earlier batch is resolved (accepted or counted as
\* failed), and no such delay follows the last batch of a language.
C20_InterBatchDelay ==
    /\ {<<delays[i].lang, delays[i].after>> : i \in 1..Len(delays)} = BatchesLeftBehind
    /\ Len(delays) = Cardinality(BatchesLeftBehind)
    /\ \A i \in 1..Len(delays) : delays[i].ms = 200
    /\ ipc = "delay" =>
        /\ cur.outcome \in {"ok", "failed_rate_limit", "failed_error"}
        /\ cur.lang = langIdx /\ cur.batch_num = batch_idx + 1
        /\ batch_idx + 1 < Len(chunks)
    /\ (ipc = "push" /\ batch_idx > 0 /\ cur.outcome # "retrying") =>
        /\ delays # <<>>
        /\ delays[Len(delays)] = [lang |-> langIdx, after |-> batch_idx, ms |-> 200]

\* An import has returned after a language of three batches, the first of them
\* counted as failed: two delays were made.
C20_Witness ==
    /\ ipc = "done"
    /\ itrans = <<120>>
    /\ Len(delays) = 2
    /\ import_result.failed >= 50
    /\ import_result.added > 0

----------------------------------------------------------------------------
(* Properties of the run of the sync command around execute_sync.          *)

\* The calls of `name` among the calls made.
CallsOf(calls, name) == {i \in 1..Len(calls) : calls[i].call = name}

\* check_auth was called first and did not return Ok(true).
SyncAuthRefused ==
    /\ sync_calls # <<>>
    /\ sync_calls[1].call = "check_auth"
    /\ check_auth(sync_calls[1].answer) # Ok(TRUE)

\* C21, for the sync: authentication is checked exactly once per run, before
\* anything else: check_auth is the first call of a run and is called once;
\* nothing is fetched, scanned or written before it; and when it does not
\* return Ok(true) the run returns an error with no fetch, no local scan and no
\* file write made.
C21_SyncAuthFirst ==
    /\ CallsOf(sync_calls, "check_auth") \subseteq {1}
    /\ spc # "auth" => CallsOf(sync_calls, "check_auth") = {1}
    /\ spc = "auth" =>
        /\ sync_calls = <<>>
        /\ written = <<>> /\ disk = disk0
        /\ local_scan_result = ScanResultEmpty
    /\ SyncAuthRefused =>
        /\ spc = "error" /\ sync_result.ret = "Err"
        /\ Len(sync_calls) = 1
        /\ written = <<>> /\ disk = disk0
        /\ local_scan_result = ScanResultEmpty /\ todo = <<>>

\* check_auth was called first by the import and did not return Ok(true).
ImportAuthRefused ==
    /\ import_calls # <<>>
    /\ import_calls[1].call = "check_auth"
    /\ check_auth(import_calls[1].answer) # Ok(TRUE)

\* C21, for the import: check_auth is the first call of a run and is called
\* once; nothing is scanned or pushed before it; and when it does not return
\* Ok(true) the run returns an error with no local scan and no push made.
C21_ImportAuthFirst ==
    /\ CallsOf(import_calls, "check_auth") \subseteq {1}
    /\ ipc \notin {"idle", "auth"} => CallsOf(import_calls, "check_auth") = {1}
    /\ ipc = "auth" =>
        /\ import_calls = <<>>
        /\ attempted = {} /\ cur = NoBatch
    /\ ImportAuthRefused =>
        /\ ipc = "error"
        /\ Len(import_calls) = 1
        /\ attempted = {} /\ cur = NoBatch
        /\ import_result = ImportResultDefault /\ import_report = NoReport

\* The runs of the two commands that talk to the remote: an import or a sync.
InitRuns == InitImport \/ InitSync

NextRuns == NextImport \/ NextSync

SpecRuns == InitRuns /\ [][NextRuns]_vars

\* C21: authentication is checked exactly once per import or sync run, before
\* anything else touches local files or translations: when check_auth reports
\* not authenticated, or fails, the run returns an error and no local scan, no
\* fetch, no push and no file write has happened.
C21_AuthFirst ==
    /\ spc # "idle" => C21_SyncAuthFirst
    /\ ipc # "idle" => C21_ImportAuthFirst

\* An import run has returned an error after the auth endpoint answered 401,
\* with keys to push.
C21_ImportWitness ==
    /\ ipc = "error"
    /\ import_calls = <<Call("check_auth", [kind |-> "status_err", status |-> 401])>>
    /\ SumKeys(itrans) > 0
    /\ ~import_dry_run

\* A sync run has returned an error after the auth endpoint answered 401, with
\* files on disk and translations on the remote.
C21_SyncWitness ==
    /\ spc = "error"
    /\ sync_calls = <<Call("check_auth", [kind |-> "status_err", status |-> 401])>>
    /\ DOMAIN disk # {}
    /\ total_keys(incoming) > 0
    /\ ~dry_run

\* C22: when the remote returns a translation set with no keys, the sync
\* returns Ok with downloaded = skipped = written = 0, and at no point of the
\* run is a file or a directory made or written.
C22_NothingFetched ==
    (IncomingKeys = {} /\ spc # "idle") =>
        /\ disk = disk0
        /\ written = <<>>
        /\ spc = "done" =>
            /\ sync_result = [SyncResultNone EXCEPT !.ret = "Ok"]
            /\ sync_result.downloaded = 0
            /\ sync_result.skipped = 0
            /\ sync_result.written = 0

\* A real sync has returned after the remote answered with a language that has
\* no keys, while a file of that language is on disk.
C22_Witness ==
    /\ spc = "done"
    /\ ~dry_run
    /\ IncomingKeys = {}
    /\ \E l \in DOMAIN incoming : \E q \in DOMAIN disk : q[1] = l /\ disk[q].tree # Unparsed
    /\ sync_result.ret = "Ok"

\* How many times the key k is in the sequence ks.
Occurrences(ks, k) == Cardinality({i \in 1..Len(ks) : ks[i] = k})

\* C23: a sync run with dry_run makes, writes and changes no file or directory
\* at any point; for each remote language it only partitions the incoming keys
\* into the new ones, absent from the local scan of the language, and the
\* existing ones, present in it, and every incoming key is in exactly one of
\* the two parts, once.
C23_DryRunOnlyDiffs ==
    dry_run =>
        /\ disk = disk0
        /\ written = <<>>
        /\ todo = <<>>
        /\ spc \in {"auth", "start", "done", "error"}
        /\ (spc = "done" /\ IncomingKeys # {}) =>
            /\ sync_result = [SyncResultNone EXCEPT !.ret = "Ok"]
            /\ DOMAIN sync_diff = DOMAIN incoming
            /\ \A l \in DOMAIN incoming :
                LET new_keys == sync_diff[l].new_keys
                    existing_keys == sync_diff[l].existing_keys
                IN /\ \A k \in DOMAIN incoming[l] :
                        Occurrences(new_keys, k) + Occurrences(existing_keys, k) = 1
                   /\ \A i \in 1..Len(new_keys) :
                        new_keys[i] \in DOMAIN incoming[l] \ LocalKeys(l)
                   /\ \A i \in 1..Len(existing_keys) :
                        existing_keys[i] \in DOMAIN incoming[l] \cap LocalKeys(l)

\* A dry run has returned after it showed, for one language, a key the local
\* files lack and a key they hold.
C23_Witness ==
    /\ dry_run
    /\ spc = "done"
    /\ \E l \in DOMAIN sync_diff :
        /\ sync_diff[l].new_keys # <<>>
        /\ sync_diff[l].existing_keys # <<>>

----------------------------------------------------------------------------
(* Properties of the run of the import command around execute_import.      *)

\* C24: an import run with dry_run never calls the remote push: no batch is
\* attempted and execute_import is not entered at any point; after the scan and
\* the language mapping the run only reports the key count of every language
\* and their total, and returns.
C24_DryRunNeverPushes ==
    import_dry_run =>
        /\ attempted = {}
        /\ cur = NoBatch
        /\ delays = <<>>
        /\ ipc \in {"auth", "scan", "done", "error"}
        /\ \A i \in 1..Len(import_calls) :
                import_calls[i].call \in {"check_auth", "scan_messages_dir"}
        /\ (ipc = "done" /\ SumKeys(itrans) > 0) =>
            /\ import_report.counts = itrans
            /\ import_report.total_keys = SumKeys(itrans)
            /\ import_result.added >= SumKeys(itrans)
            /\ import_result.updated = 0 /\ import_result.failed = 0

\* A dry run of the import has returned after it reported the keys of two
\* languages, more than one batch in all.
C24_Witness ==
    /\ import_dry_run
    /\ ipc = "done"
    /\ Len(import_report.counts) = 2
    /\ import_report.total_keys > BATCH_SIZE
    /\ Len(import_calls) = 2

----------------------------------------------------------------------------
(* Properties of unflatten_object on keys that are prefixes of one another. *)

\* The path of the flat key k in a tree made by unflatten_object: one object
\* key per segment.
PathOf(k) == [i \in 1..Len(k) |-> <<k[i]>>]

\* The place of the key k in the order ks.
PlaceOf(ks, k) == CHOOSE i \in 1..Len(ks) : ks[i] = k

\* The pairs <<p, k>> of keys of `flat` with p a proper dot-path prefix of k.
PrefixPairs == {pk \in (DOMAIN flat) \X (DOMAIN flat) : IsProperPrefix(pk[1], pk[2])}

\* C25 as stated: when a key was processed before a longer key of which it is a
\* dot-path prefix, the string it bound is overwritten with an object and the
\* longer key's value is present in the result.
C25_LongerKeyInserted ==
    fpc = "restored" =>
        \A pk \in PrefixPairs :
            PlaceOf(unflatten_keys, pk[1]) < PlaceOf(unflatten_keys, pk[2])
                => ValueAt(restored, PathOf(pk[2])) = String(flat[pk[2]])

\* C25 amended: when the input holds a key and a longer key of which it is a
\* dot-path prefix, the result binds the shortest such key to its string,
\* whichever of the two was processed first, and the longer key's value is not
\* in the result.
C25_ShorterKeyKept ==
    fpc = "restored" =>
        \A pk \in PrefixPairs :
            (\A q \in DOMAIN flat : ~IsProperPrefix(q, pk[1])) =>
                /\ ValueAt(restored, PathOf(pk[1])) = String(flat[pk[1]])
                /\ ValueAt(restored, PathOf(pk[2])) = NoValue

\* unflatten_object has returned for an input in which a key was processed
\* before a longer key of which it is a dot-path prefix.
C25_Witness ==
    /\ fpc = "restored"
    /\ \E pk \in PrefixPairs :
        PlaceOf(unflatten_keys, pk[1]) < PlaceOf(unflatten_keys, pk[2])

\* C27: the result of unflatten_object depends only on the key-value pairs of
\* its input and not on the order in which the keys are processed: every order
\* gives the result of the order taken, also when one key is a dot-path prefix
\* of another.
C27_OrderIndependent ==
    fpc = "restored" =>
        \A keys \in Perms(DOMAIN flat) : unflatten_object(flat, keys) = restored

\* unflatten_object has returned for an input of three keys in which a key was
\* processed after a longer key of which it is a dot-path prefix.
C27_Witness ==
    /\ fpc = "restored"
    /\ Cardinality(DOMAIN flat) >= 3
    /\ \E pk \in PrefixPairs :
        PlaceOf(unflatten_keys, pk[2]) < PlaceOf(unflatten_keys, pk[1])

----------------------------------------------------------------------------
(* Properties of the counts of execute_import.                             *)

RECURSIVE SumCounted(_)

\* The keys counted by the contributions cs.
SumCounted(cs) == IF cs = <<>> THEN 0 ELSE Head(cs).counted + SumCounted(Tail(cs))

\* Every successful response so far listed each key of its batch exactly once.
EveryKeyListed ==
    \A i \in 1..Len(contributions) :
        contributions[i].via = "response" =>
            contributions[i].counted = contributions[i].size

\* C26: no batch contributes twice to the counts, whether through a response
\* or as a whole-batch failure, and retries contribute nothing; the counts are
\* the sum of the contributions; and if every successful response lists each
\* key of its batch exactly once, then when execute_import returns every batch
\* has contributed once and added + updated + failed is the number of keys over
\* all languages.
C26_CountsAddUp ==
    /\ \A i, j \in 1..Len(contributions) :
            (contributions[i].lang = contributions[j].lang
                /\ contributions[i].batch_num = contributions[j].batch_num) => i = j
    /\ import_dry_run \/ import_result.added + import_result.updated + import_result.failed
                            = SumCounted(contributions)
    /\ (ipc = "done" /\ ~import_dry_run /\ EveryKeyListed) =>
        /\ {<<contributions[i].lang, contributions[i].batch_num>> :
                i \in 1..Len(contributions)} = AllBatches
        /\ import_result.added + import_result.updated + import_result.failed
                = SumKeys(itrans)

\* execute_import has returned after one batch was counted through a response
\* with added and existed keys and another as a failure after two retries.
C26_Witness ==
    /\ ipc = "done"
    /\ EveryKeyListed
    /\ import_result.added > 0 /\ import_result.updated > 0
    /\ \E i \in 1..Len(contributions) : contributions[i].via = "failure"
    /\ cur.attempts = MAX_RETRIES

----------------------------------------------------------------------------
(* Properties of the files a real sync leaves.                             *)

FilesOf(d, l) == {q \in DOMAIN d : q[1] = l}

\* The value the tree v holds for the flat key k, or NoValue.
StoredAt(v, k) == IF v = Unparsed THEN NoValue ELSE ValueAt(v, PathOf(k))

\* Another incoming key of l, or a key of a local file of l, is a proper
\* dot-path prefix of the key k.
HasPrefixKey(l, k) ==
    \E p \in (DOMAIN incoming[l]) \cup LocalKeys(l) : IsProperPrefix(p, k)

\* C29 as stated: after a real sync that returns Ok, every incoming key of
\* every language is stored with its remote value in at least one file of the
\* language, unless another incoming or local key of the language is a
\* dot-path prefix of it.
C29_EveryKeyStored ==
    (spc = "done" /\ sync_result.ret = "Ok" /\ ~dry_run) =>
        \A l \in DOMAIN incoming : \A k \in DOMAIN incoming[l] :
            ~HasPrefixKey(l, k) =>
                \E q \in FilesOf(disk, l) :
                    StoredAt(disk[q].tree, k) = String(incoming[l][k])

\* The file q was there when the run started, was parsed, and has been written.
Rewritten(q) ==
    /\ q \in DOMAIN disk0
    /\ disk0[q].tree # Unparsed
    /\ \E i \in 1..Len(written) : written[i] = q

\* A key of the merged flat map of the file q, local or incoming, is a proper
\* dot-path prefix of the key k.
Shadowed(q, k) ==
    \E p \in (DOMAIN incoming[q[1]])
                \cup DOMAIN flatten_object(disk0[q].tree, EmptyString, FALSE) :
        IsProperPrefix(p, k)

\* C30: in a real sync that returns Ok, every file of a language with incoming
\* translations that was there and was parsed has been written, and holds every
\* incoming key of the language with its remote value, apart from the keys
\* shadowed by a dot-path prefix key: also the keys it did not hold before.
C30_EveryFileGetsEveryKey ==
    /\ \A q \in DOMAIN disk0 :
        Rewritten(q) =>
            \A k \in DOMAIN incoming[q[1]] :
                ~Shadowed(q, k) =>
                    StoredAt(disk[q].tree, k) = String(incoming[q[1]][k])
    /\ (spc = "done" /\ sync_result.ret = "Ok" /\ ~dry_run /\ IncomingKeys # {}) =>
        \A q \in DOMAIN disk0 :
            (q[1] \in DOMAIN incoming /\ disk0[q].tree # Unparsed) => Rewritten(q)

\* A real sync has returned after it wrote two files of one language, each of
\* which now holds an incoming key that it did not hold before.
C30_Witness ==
    /\ spc = "done"
    /\ sync_result.ret = "Ok"
    /\ run_no = 1
    /\ \E q1 \in DOMAIN disk0, q2 \in DOMAIN disk0 :
        /\ q1 # q2 /\ q1[1] = q2[1]
        /\ Rewritten(q1) /\ Rewritten(q2)
        /\ \E k \in DOMAIN incoming[q1[1]] :
            /\ k \notin DOMAIN flatten_object(disk0[q1].tree, EmptyString, FALSE)
            /\ k \notin DOMAIN flatten_object(disk0[q2].tree, EmptyString, FALSE)
            /\ StoredAt(disk[q1].tree, k) = String(incoming[q1[1]][k])
            /\ StoredAt(disk[q2].tree, k) = String(incoming[q1[1]][k])

====
